---- MODULE Spec2Model ----
(***************************************************************************)
(* Model of the notebook modification engine (app/agents/modifier.py), the *)
(* memory layer it writes to (app/memory.py) and the cell catalog          *)
(* (app/utils/cell_names.py).                                              *)
(*                                                                         *)
(* Python values are modelled as follows:                                  *)
(*   - Optional[T]: None is <<>>, a present value v is <<v>>;              *)
(*   - objects that Python shares by reference (cells, lists of cells,     *)
(*     notebooks) live in `heap` and are named by their position in it;    *)
(*   - list indices are Python's (0-based, negative counts from the end).  *)
(***************************************************************************)
EXTENDS Integers, Sequences, FiniteSets, TLC

(***************************************************************************)
(* Bounds of the model.                                                    *)
(***************************************************************************)
\* longest edit list the edit-request oracle returns
MaxEdits == 2
\* longest affected_cells list the analysis oracle returns
MaxAffected == 1
\* longest chain of catalog lookups, each made on the result of the one before
MaxLookups == 2
\* most operations (generate, modify, fix) that store in the memory layer
MaxOperations == 2
\* the concurrent callers of the in-process store
NumCallers == 2

(***************************************************************************)
(* Optional values.                                                        *)
(***************************************************************************)
None == <<>>
Some(v) == <<v>>
IsNone(o) == o = <<>>
Val(o) == o[1]

\* Python truthiness of an Optional[str]: None and "" are falsy
Truthy(o) == ~IsNone(o) /\ Val(o) # ""

(***************************************************************************)
(* Cell catalog (app/utils/cell_names.py).                                 *)
(***************************************************************************)
NumCells == 12

CellIndices == 0 .. (NumCells - 1)

CELL_NAMES ==
    (0 :> "imports") @@ (1 :> "config") @@ (2 :> "creator") @@
    (3 :> "evaluate") @@ (4 :> "crossover") @@ (5 :> "mutation") @@
    (6 :> "selection") @@ (7 :> "additional_operators") @@
    (8 :> "initialization") @@ (9 :> "toolbox_registration") @@
    (10 :> "evolution_loop") @@ (11 :> "results_and_plots")

CatalogNames == {CELL_NAMES[i] : i \in DOMAIN CELL_NAMES}

\* f"cell_{i}"
PlaceholderName(i) == "cell_" \o ToString(i)

\* CellNameMapper.get_cell_name
get_cell_name(index) ==
    IF index \in DOMAIN CELL_NAMES THEN CELL_NAMES[index] ELSE PlaceholderName(index)

\* a slip: a default index instead of the not-found value
GetIndexByNameDefaultZero(cell_name) ==
    IF \E idx \in DOMAIN CELL_NAMES : CELL_NAMES[idx] = cell_name
    THEN CHOOSE idx \in DOMAIN CELL_NAMES : CELL_NAMES[idx] = cell_name
    ELSE 0

\* CellNameMapper.get_index_by_name: the first index, in the order of the
\* dictionary, whose name is cell_name
get_index_by_name(cell_name) ==
    LET found == {idx \in DOMAIN CELL_NAMES : CELL_NAMES[idx] = cell_name}
    IN  IF found # {} THEN CHOOSE idx \in found : \A j \in found : idx <= j
        ELSE -1

(***************************************************************************)
(* Target resolution of the modifier (NotebookModifier.CELL_MAP).          *)
(***************************************************************************)
CELL_MAP ==
    ("imports" :> 0) @@ ("import" :> 0) @@
    ("config" :> 1) @@ ("configuration" :> 1) @@
    ("creator" :> 2) @@
    ("evaluate" :> 3) @@ ("evaluation" :> 3) @@ ("fitness" :> 3) @@
    ("mate" :> 4) @@ ("crossover" :> 4) @@
    ("mutate" :> 5) @@ ("mutation" :> 5) @@
    ("select" :> 6) @@ ("selection" :> 6) @@
    ("additional" :> 7) @@ ("operators" :> 7) @@
    ("init" :> 8) @@ ("initialization" :> 8) @@
    ("register" :> 9) @@ ("toolbox" :> 9) @@
    ("evolution" :> 10) @@ ("loop" :> 10) @@ ("algorithm" :> 10) @@
    ("results" :> 11) @@ ("plots" :> 11) @@ ("plotting" :> 11)

\* str.lower() on the names the requests of the model carry
Lower(s) ==
    CASE s = " Mutate " -> " mutate "
      [] s = "Mutate" -> "mutate"
      [] OTHER -> s

\* str.strip() on the names the requests of the model carry
Strip(s) ==
    CASE s = " mutate " -> "mutate"
      [] s = " Mutate " -> "Mutate"
      [] OTHER -> s

\* a plausible slip: dict.get with a default index instead of None
GetCellIndexDefaultZero(cell_name) ==
    LET normalized == Strip(Lower(cell_name))
    IN  IF normalized \in DOMAIN CELL_MAP THEN Some(CELL_MAP[normalized]) ELSE Some(0)

\* NotebookModifier._get_cell_index: Optional[int]
GetCellIndex(cell_name) ==
    LET normalized == Strip(Lower(cell_name))
    IN  IF normalized \in DOMAIN CELL_MAP THEN Some(CELL_MAP[normalized]) ELSE None

(***************************************************************************)
(* Heap of shared objects.  heap.cells[c] is a NotebookCell object,        *)
(* heap.lists[l] a Python list of cell objects, heap.notebooks[n] a        *)
(* NotebookStructure object (its cells list and its requirements).         *)
(***************************************************************************)
\* position (1-based) of Python index i in a list of length n; 0 is IndexError
PyPos(n, i) ==
    IF 0 <= i /\ i < n THEN i + 1
    ELSE IF -n <= i /\ i < 0 THEN n + i + 1
    ELSE 0

\* the cell object at Python index i of list l (i must be a valid index)
CellAt(h, l, i) == h.cells[h.lists[l][PyPos(Len(h.lists[l]), i)]]

\* the cells of notebook n, as values, in order
CellValues(h, n) ==
    LET l == h.lists[h.notebooks[n].cells]
    IN  [k \in 1 .. Len(l) |-> h.cells[l[k]]]

\* the cell objects notebook n holds
CellObjects(h, n) ==
    LET l == h.lists[h.notebooks[n].cells]
    IN  {l[k] : k \in 1 .. Len(l)}

\* format_code of app/utils/helpers.py: normalises the text of new code
format_code(code) ==
    CASE code = "x = 1  " -> "x = 1"
      [] OTHER -> code

\* NotebookCell(...) fields left to their declared defaults
DefaultMetadata == None

\* NotebookStructure(cells=...) leaves requirements to its declared default
DefaultRequirements == None

\* a slip: cells = notebook.cells (the caller's list itself)
AliasCells(h, l) == [heap |-> h, list |-> l]

\* cells = [cell.model_copy(deep=True) for cell in notebook.cells]
DeepCopyCells(h, l) ==
    LET src == h.lists[l]
        base == Len(h.cells)
        copies == [k \in 1 .. Len(src) |-> h.cells[src[k]]]
        newList == [k \in 1 .. Len(src) |-> base + k]
    IN  [heap |-> [h EXCEPT !.cells = h.cells \o copies,
                            !.lists = Append(h.lists, newList)],
         list |-> Len(h.lists) + 1]

\* a slip in the bound check: the lower bound is missing
InRangeNoLowerBound(cell_index) == cell_index < NumCells

\* 0 <= mod.cell_index < 12
InRange(cell_index) == 0 <= cell_index /\ cell_index < NumCells

\* one iteration of the loop of _apply_cell_modifications on list l;
\* st = [heap, raised]
ApplyOne(st, l, mod) ==
    IF st.raised \/ ~InRange(mod.cell_index) THEN st
    ELSE LET h == st.heap
             pos == PyPos(Len(h.lists[l]), mod.cell_index)
         IN  IF pos = 0 THEN [st EXCEPT !.raised = TRUE]
             ELSE LET cell == [cell_type |-> "code",
                               cell_name |-> h.cells[h.lists[l][pos]].cell_name,
                               source |-> format_code(mod.new_code),
                               execution_count |-> None,
                               metadata |-> DefaultMetadata]
                      oid == Len(h.cells) + 1
                  IN  [st EXCEPT !.heap.cells = Append(h.cells, cell),
                                 !.heap.lists[l][pos] = oid]

RECURSIVE ApplyAll(_, _, _)
ApplyAll(st, l, mods) ==
    IF mods = <<>> THEN st
    ELSE ApplyAll(ApplyOne(st, l, Head(mods)), l, Tail(mods))

\* NotebookModifier._apply_cell_modifications: the new heap, the notebook
\* object returned, and whether an exception left the method
ApplyCellModifications(h, n, modifications) ==
    LET copied == DeepCopyCells(h, h.notebooks[n].cells)
        st == ApplyAll([heap |-> copied.heap, raised |-> FALSE], copied.list, modifications)
        nb == [cells |-> copied.list, requirements |-> DefaultRequirements]
    IN  IF st.raised THEN [heap |-> st.heap, notebook |-> 0, raised |-> TRUE]
        ELSE [heap |-> [st.heap EXCEPT !.notebooks = Append(st.heap.notebooks, nb)],
              notebook |-> Len(st.heap.notebooks) + 1,
              raised |-> FALSE]

\* modified_notebook.requirements = modification_result.requirements, if truthy
SetRequirements(h, n, requirements) ==
    IF Truthy(requirements) THEN [h EXCEPT !.notebooks[n].requirements = requirements]
    ELSE h

(***************************************************************************)
(* Memory layer (app/memory.py).  The layer keeps a provider client        *)
(* (self.memory) or, without one, the in-process dictionary                *)
(* self._fallback_memory.  mem = [provider, fallback]: the records the     *)
(* provider holds, in the order they were added, and the dictionary.       *)
(* Texts are sequences of their parts (an f-string is the sequence of its  *)
(* literal and formatted parts).                                           *)
(***************************************************************************)
Min(a, b) == IF a < b THEN a ELSE b

\* seq[:n]
Take(seq, n) == SubSeq(seq, 1, Min(n, Len(seq)))

\* seq[-n:]
LastN(seq, n) == SubSeq(seq, Len(seq) - Min(n, Len(seq)) + 1, Len(seq))

RECURSIVE Flatten(_)
Flatten(seqs) == IF seqs = <<>> THEN <<>> ELSE Head(seqs) \o Flatten(Tail(seqs))

EmptyMemory == [provider |-> <<>>, fallback |-> <<>>]

\* f"{user_id}:{notebook_id}"
ScopeKey(user_id, notebook_id) == user_id \o ":" \o notebook_id

\* a slip: the key's list is begun anew by every add
FallbackAddFresh(m, key, data_type, content) ==
    [m EXCEPT !.fallback = (key :> <<[type |-> data_type, content |-> content]>>)
                               @@ m.fallback]

\* EnhancedMemory._fallback_add
FallbackAdd(m, key, data_type, content) ==
    LET old == IF key \in DOMAIN m.fallback THEN m.fallback[key] ELSE <<>>
        dict == (key :> Append(old, [type |-> data_type, content |-> content]))
                    @@ m.fallback
    IN  [m EXCEPT !.fallback = dict]

\* EnhancedMemory._fallback_get; data_type is Optional
FallbackGet(m, key, data_type) ==
    LET data == IF key \in DOMAIN m.fallback THEN m.fallback[key] ELSE <<>>
        OfType(d) == d.type = Val(data_type)
    IN  IF Truthy(data_type) THEN SelectSeq(data, OfType) ELSE data

\* self.memory.add(messages=[...], user_id=..., run_id=..., metadata=...)
ProviderAdd(m, user_id, run_id, metadata, message) ==
    [m EXCEPT !.provider = Append(m.provider,
        [user_id |-> user_id, run_id |-> run_id, metadata |-> metadata,
         memory |-> message])]

\* the metadata fields the layer reads back, absent ones as None
Metadata(type, cell_name, source_cell, affected_cells, operation) ==
    [type |-> type, cell_name |-> cell_name, source_cell |-> source_cell,
     affected_cells |-> affected_cells, operation |-> operation]

\* a slip: the user_id filter is left out of the provider query
ProviderMatchingAnyUser(m, user_id, run_id) ==
    LET Match(r) == IsNone(run_id) \/ r.run_id = run_id
    IN  SelectSeq(m.provider, Match)

\* the records of the provider that match filters={"user_id": ..., "run_id": ...};
\* run_id is Optional (no run_id filter when None)
ProviderMatching(m, user_id, run_id) ==
    LET Match(r) == r.user_id = user_id /\ (IsNone(run_id) \/ r.run_id = run_id)
    IN  SelectSeq(m.provider, Match)

\* self.memory.search(query, filters, limit): up to limit matching records in
\* the order of the provider's ranking, which the layer does not control
ProviderSearchResults(m, user_id, run_id, limit) ==
    LET matching == ProviderMatching(m, user_id, run_id)
        Ranked(n) == {f \in [1 .. n -> 1 .. Len(matching)] :
                         \A a, b \in 1 .. n : a # b => f[a] # f[b]}
    IN  UNION {{[k \in 1 .. n |-> matching[f[k]]] : f \in Ranked(n)} :
               n \in 0 .. Min(limit, Len(matching))}

\* p.get("memory", p.get("content", ""))
MemoryText(p) ==
    IF "memory" \in DOMAIN p THEN p.memory
    ELSE IF "content" \in DOMAIN p THEN p.content
    ELSE <<>>

MemoryTexts(records) == [k \in 1 .. Len(records) |-> MemoryText(records[k])]

\* json.dumps(details, indent=2) of the details the modifier stores
JsonDumps(parts) == <<"{">> \o parts \o <<"}">>

\* EnhancedMemory.search_user_context: the values it may return; a provider
\* call that raises is caught in the method and gives []
search_user_context(m, provider, user_id, limit) ==
    IF provider THEN ProviderSearchResults(m, user_id, None, limit) \cup {<<>>}
    ELSE {Take(FallbackGet(m, user_id, None), limit)}

\* EnhancedMemory.get_cell_patterns
get_cell_patterns(m, provider, user_id, cell_name, limit) ==
    LET Named(r) == r.metadata.cell_name = Some(cell_name)
        Mentions(d) == \E k \in 1 .. Len(d.content) : d.content[k] = cell_name
    IN  IF provider
        THEN {SelectSeq(res, Named) :
                  res \in ProviderSearchResults(m, user_id, None, limit)} \cup {<<>>}
        ELSE {Take(SelectSeq(FallbackGet(m, user_id, Some("cell_modification")),
                             Mentions), limit)}

\* the list(affected) of get_learned_dependencies, as the set it was built from
LearnedFrom(results, cell_name) ==
    UNION {{results[k].metadata.affected_cells[j] :
                j \in 1 .. Len(results[k].metadata.affected_cells)} :
           k \in {i \in 1 .. Len(results) :
                      results[i].metadata.source_cell = Some(cell_name)}}

\* the limit of the search of get_learned_dependencies
LearnedSearchLimit == 5

\* EnhancedMemory.get_learned_dependencies
get_learned_dependencies(m, provider, user_id, cell_name) ==
    IF provider
    THEN {LearnedFrom(res, cell_name) :
              res \in ProviderSearchResults(m, user_id, None, LearnedSearchLimit)}
         \cup {{}}
    ELSE {{}}

\* EnhancedMemory.get_notebook_history
get_notebook_history(m, provider, user_id, notebook_id, limit) ==
    IF provider
    THEN {LastN(ProviderMatching(m, user_id, Some(notebook_id)), limit), <<>>}
    ELSE {LastN(FallbackGet(m, ScopeKey(user_id, notebook_id),
                            Some("notebook_context")), limit)}

\* a slip: the record is scoped to the user alone
AddNotebookContextUnscoped(m, provider, ok, user_id, notebook_id, operation, details) ==
    LET message == <<"Notebook operation - ", operation, ": ">> \o JsonDumps(details)
    IN  IF provider
        THEN IF ok
             THEN ProviderAdd(m, user_id, None,
                      Metadata("notebook_context", None, None, <<>>, Some(operation)),
                      message)
             ELSE m
        ELSE FallbackAdd(m, user_id, "notebook_context", message)

\* EnhancedMemory.add_notebook_context; ok: the provider call does not raise
add_notebook_context(m, provider, ok, user_id, notebook_id, operation, details) ==
    LET message == <<"Notebook operation - ", operation, ": ">> \o JsonDumps(details)
    IN  IF provider
        THEN IF ok
             THEN ProviderAdd(m, user_id, Some(notebook_id),
                      Metadata("notebook_context", None, None, <<>>, Some(operation)),
                      message)
             ELSE m
        ELSE FallbackAdd(m, ScopeKey(user_id, notebook_id), "notebook_context", message)

\* EnhancedMemory.store_cell_modification
store_cell_modification(m, provider, ok, user_id, notebook_id, cell_name, details) ==
    LET message == <<"Cell modification - ", cell_name, ": ">> \o JsonDumps(details)
    IN  IF provider
        THEN IF ok
             THEN ProviderAdd(m, user_id, Some(notebook_id),
                      Metadata("cell_modification", Some(cell_name), None, <<>>, None),
                      message)
             ELSE m
        ELSE FallbackAdd(m, ScopeKey(user_id, notebook_id), "cell_modification", message)

\* EnhancedMemory.store_dependency_pattern
store_dependency_pattern(m, provider, ok, user_id, notebook_id, source_cell, affected_cells, reason) ==
    LET message == <<"Dependency pattern: Modifying ", source_cell, " affected ">>
                       \o affected_cells \o <<" because ">> \o reason
    IN  IF provider
        THEN IF ok
             THEN ProviderAdd(m, user_id, Some(notebook_id),
                      Metadata("dependency_pattern", None, Some(source_cell),
                               affected_cells, None),
                      message)
             ELSE m
        ELSE FallbackAdd(m, ScopeKey(user_id, notebook_id), "dependency_pattern", message)

\* EnhancedMemory.add_user_preference
add_user_preference(m, provider, ok, user_id, preference_type, value) ==
    LET message == <<"User preference - ", preference_type, ": ", value>>
    IN  IF provider
        THEN IF ok
             THEN ProviderAdd(m, user_id, None,
                      Metadata("user_preference", None, None, <<>>, None), message)
             ELSE m
        ELSE FallbackAdd(m, user_id, "user_preference", message)

\* EnhancedMemory.store_error_pattern
store_error_pattern(m, provider, ok, user_id, notebook_id, error_type, error_location, fix_applied) ==
    LET message == <<"Error pattern: ", error_type, " at ", error_location,
                     ", fixed by ", fix_applied>>
    IN  IF provider
        THEN IF ok
             THEN ProviderAdd(m, user_id, Some(notebook_id),
                      Metadata("error_pattern", None, None, <<>>, None), message)
             ELSE m
        ELSE FallbackAdd(m, ScopeKey(user_id, notebook_id), "error_pattern", message)

\* EnhancedMemory.get_common_errors
get_common_errors(m, provider, user_id, limit) ==
    LET IsError(r) == r.metadata.type = "error_pattern"
    IN  IF provider
        THEN {SelectSeq(res, IsError) :
                  res \in ProviderSearchResults(m, user_id, None, limit)} \cup {<<>>}
        ELSE {Take(FallbackGet(m, user_id, Some("error_pattern")), limit)}

(***************************************************************************)
(* Requests, artifacts and what the collaborators may answer.              *)
(***************************************************************************)
\* the sources of the twelve cells of a request's notebook, all different
SOURCES ==
    (0 :> "src0") @@ (1 :> "src1") @@ (2 :> "src2") @@ (3 :> "src3") @@
    (4 :> "src4") @@ (5 :> "src5") @@ (6 :> "src6") @@ (7 :> "src7") @@
    (8 :> "src8") @@ (9 :> "src9") @@ (10 :> "src10") @@ (11 :> "src11")

\* "generated": a notebook as NotebookGenerator.generate builds it;
\* "executed": cells that carry no name and have been run by the caller
ArtifactKinds == {"generated", "executed"}

\* the cell at index i of an artifact of the given kind
ArtifactCell(kind, i) ==
    IF kind = "generated"
    THEN [cell_type |-> "code", cell_name |-> Some(get_cell_name(i)),
          source |-> SOURCES[i], execution_count |-> None, metadata |-> Some(i)]
    ELSE [cell_type |-> "code", cell_name |-> None,
          source |-> SOURCES[i], execution_count |-> Some(i + 1), metadata |-> None]

\* the heap that holds the request's notebook alone: cells 1..12, list 1,
\* notebook 1
ArtifactHeap(kind) ==
    [cells |-> [k \in 1 .. NumCells |-> ArtifactCell(kind, k - 1)],
     lists |-> <<[k \in 1 .. NumCells |-> k]>>,
     notebooks |-> <<[cells |-> 1, requirements |-> Some("deap")]>>]

\* request.cell_name: absent, empty, the catalog's names, aliases of
\* CELL_MAP in several spellings, and a name nothing knows
RequestCellNames ==
    {None} \cup {Some(n) : n \in CatalogNames \cup
                     {"", "mutate", " Mutate ", "not_a_real_cell"}}

\* the sequences over S of length at most n
SeqsUpTo(S, n) == UNION {[1 .. k -> S] : k \in 0 .. n}

\* indices the analysis oracle may name besides the resolved target
AnalysisIndices == {-1, 9, 12}

\* AffectedCellsAnalysis values the oracle may return for target index t
AnalysisResults(t) ==
    [target_cell_index : {t} \cup AnalysisIndices,
     affected_cells : SeqsUpTo(AnalysisIndices, MaxAffected)]

\* indices the edit-request oracle may name
EditIndices == {-1, 3, 5, 12}

\* CellModification values
CellModifications ==
    [cell_index : EditIndices, new_code : {"x = 1  "}, change_description : {"desc"}]

\* ModificationResult values the oracle may return
ModificationResults ==
    [modifications : SeqsUpTo(CellModifications, MaxEdits),
     changes_summary : {<< <<"changed">> >>},
     requirements : {None, Some(""), Some("deap numpy")}]

\* str(e) of the exceptions an oracle call raises
OracleErrors == {"timeout"}

\* the fallback of _analyze_affected_cells with a wrong default index
AnalysisFallbackIndexZero(target_index) ==
    [target_cell_index |-> 0, affected_cells |-> <<>>]

\* the fallback of _analyze_affected_cells
AnalysisFallback(target_index) ==
    [target_cell_index |-> target_index, affected_cells |-> <<>>]

\* the fallback of _modify_cells_with_llm with the summary left out
ModificationFallbackNoSummary(e) ==
    [modifications |-> <<>>, changes_summary |-> <<>>, requirements |-> None]

\* the fallback of _modify_cells_with_llm: f"Error: {str(e)}"
ModificationFallback(e) ==
    [modifications |-> <<>>, changes_summary |-> << <<"Error: ", e>> >>,
     requirements |-> None]

NoAnalysis == [target_cell_index |-> 0, affected_cells |-> <<>>]
NoResult == [modifications |-> <<>>, changes_summary |-> <<>>, requirements |-> None]
NoContext == [user_preferences |-> <<>>, cell_patterns |-> <<>>,
              learned_dependencies |-> {}, notebook_history |-> <<>>]
NoReturn == [notebook |-> 0, changes |-> <<>>, cells_modified |-> <<>>]

\* sorted(S) for a finite set of integers
RECURSIVE Sorted(_)
Sorted(S) ==
    IF S = {} THEN <<>>
    ELSE LET m == CHOOSE x \in S : \A y \in S : x <= y
         IN  <<m>> \o Sorted(S \ {m})

\* the set of the elements of a sequence
Range(seq) == {seq[k] : k \in 1 .. Len(seq)}

\* cell.cell_name or f"cell_{i}"
NameOrPlaceholder(cell, i) ==
    IF Truthy(cell.cell_name) THEN Val(cell.cell_name) ELSE PlaceholderName(i)

(***************************************************************************)
(* State of one modify call.                                               *)
(***************************************************************************)
VARIABLES
    pc,                  \* where NotebookModifier.modify is
    request,             \* the ModifyRequest; request.notebook is notebook 1 of heap
    heap,                \* the cell, list and notebook objects
    orig,                \* the request's notebook as it was when the call began
    provider,            \* TRUE: self.memory is a client; FALSE: in-process fallback
    mem,                 \* the memory layer's records
    path,                \* "targeted" or "notebook" once modify has dispatched
    target_index,        \* local of _targeted_modification (Optional[int])
    mem0_context,        \* local: the memory context
    analysis,            \* local: affected_analysis
    all_cell_indices,    \* local: the edit set
    cells_for_llm,       \* local: the cells argument of _modify_cells_with_llm
    modification_result, \* local: what _modify_cells_with_llm returned
    modified_notebook,   \* local: the notebook _apply_cell_modifications returned
    modified_indices,    \* local of _notebook_level_modification
    ret,                 \* the tuple modify returned
    calls,               \* the collaborator calls made so far, in order
    failed,              \* the oracle calls and the pending context's reads that raised
    sent,                \* the cells the edit-request oracle call received
    writes,              \* the memory writes issued so far, in order
    other,               \* a second modify call in progress, while it does not run
    raw_request,         \* the GenerateRequest given to the request parser
    data,                \* what RequestParser.extract_structured_data returned
    lookups,             \* the catalog lookups made so far, in order
    callers,             \* the callers of _fallback_add and where each of them is
    fallback_memory,     \* _fallback_memory as those callers share it
    final_state,         \* the WorkflowState that NotebookWorkflow.execute returned
    response             \* what the modify route answered

vars == <<pc, request, heap, orig, provider, mem, path, target_index, mem0_context,
          analysis, all_cell_indices, cells_for_llm, modification_result,
          modified_notebook, modified_indices, ret, calls, failed, sent, writes>>

locals == <<target_index, mem0_context, analysis, all_cell_indices, cells_for_llm,
            modification_result, modified_notebook, modified_indices>>

\* the state of the components that are not part of the running modify call
\* the concurrent callers of the in-process store, and the workflow and route
\* around a modify call
rest == <<callers, fallback_memory, final_state, response>>

outside == <<other, raw_request, data, lookups, rest>>

\* no second modify call
Nobody == <<>>

\* the request parser and the catalog before any use
NoRawRequest == <<>>
NoData == None
NoLookups == <<>>

\* no caller of _fallback_add, an empty dictionary, no workflow run
NoCallers == <<>>
EmptyFallbackMemory == [dict |-> <<>>, lists |-> <<>>]
NoFinalState == None
NoResponse == None

RestIdle ==
    /\ callers = NoCallers
    /\ fallback_memory = EmptyFallbackMemory
    /\ final_state = NoFinalState
    /\ response = NoResponse

OutsideIdle ==
    /\ other = Nobody
    /\ raw_request = NoRawRequest
    /\ data = NoData
    /\ lookups = NoLookups
    /\ RestIdle

Init ==
    /\ pc = "modify"
    /\ \E cell_name \in RequestCellNames :
           request = [user_id |-> "u1", notebook_id |-> "nb1", cell_name |-> cell_name,
                      instruction |-> "instr", notebook |-> 1]
    /\ \E kind \in ArtifactKinds :
           /\ heap = ArtifactHeap(kind)
           /\ orig = [cells |-> CellValues(ArtifactHeap(kind), 1),
                      objects |-> ArtifactHeap(kind).lists[1],
                      requirements |-> ArtifactHeap(kind).notebooks[1].requirements]
    /\ provider \in BOOLEAN
    /\ mem = EmptyMemory
    /\ path = ""
    /\ target_index = None
    /\ mem0_context = NoContext
    /\ analysis = NoAnalysis
    /\ all_cell_indices = <<>>
    /\ cells_for_llm = <<>>
    /\ modification_result = NoResult
    /\ modified_notebook = 0
    /\ modified_indices = <<>>
    /\ ret = NoReturn
    /\ calls = <<>>
    /\ failed = {}
    /\ sent = <<>>
    /\ writes = <<>>
    /\ OutsideIdle

\* the cells list of the request's notebook
RequestCells == heap.lists[heap.notebooks[request.notebook].cells]

\* request.notebook.cells[i]
RequestCell(i) == heap.cells[RequestCells[PyPos(Len(RequestCells), i)]]

(***************************************************************************)
(* NotebookModifier.modify: dispatch on request.cell_name.                 *)
(***************************************************************************)
Modify ==
    /\ pc = "modify"
    /\ IF Truthy(request.cell_name)
       THEN pc' = "targeted" /\ path' = "targeted"
       ELSE pc' = "notebook" /\ path' = "notebook"
    /\ UNCHANGED <<outside, request, heap, orig, provider, mem, locals, ret, calls, failed,
                   sent, writes>>

(***************************************************************************)
(* _targeted_modification, "Get target cell index": an unknown name falls  *)
(* back to _notebook_level_modification.                                   *)
(***************************************************************************)
ResolveTarget ==
    /\ pc = "targeted"
    /\ LET index == GetCellIndex(Val(request.cell_name))
       IN  /\ target_index' = index
           /\ IF IsNone(index)
              THEN pc' = "notebook" /\ path' = "notebook"
              ELSE pc' = "context" /\ path' = path
    /\ UNCHANGED <<outside, request, heap, orig, provider, mem, mem0_context, analysis,
                   all_cell_indices, cells_for_llm, modification_result,
                   modified_notebook, modified_indices, ret, calls, failed, sent,
                   writes>>

(***************************************************************************)
(* Reads of the memory layer.  With a provider client every read may raise *)
(* in the provider call; the method catches the exception and returns its  *)
(* empty value.  The in-process dictionary raises nothing.                 *)
(***************************************************************************)
MemoryReads ==
    {"search_user_context", "get_cell_patterns", "get_learned_dependencies",
     "get_notebook_history"}

\* the sets of reads that may raise in one context assembly
ReadFailures == IF provider THEN SUBSET MemoryReads ELSE {{}}

\* what a read returns: its except branch's value when the provider call raised
ReadOutcome(raised, empty, values) == IF raised THEN {empty} ELSE values

(***************************************************************************)
(* _get_mem0_context_for_cell: four reads of the memory layer.             *)
(***************************************************************************)
GetMem0ContextForCell ==
    /\ pc = "context"
    /\ \E raises \in ReadFailures :
          \E prefs \in ReadOutcome("search_user_context" \in raises, <<>>,
                    search_user_context(mem, provider, request.user_id, 3)),
             patterns \in ReadOutcome("get_cell_patterns" \in raises, <<>>,
                    get_cell_patterns(mem, provider, request.user_id,
                                      Val(request.cell_name), 3)),
             deps \in ReadOutcome("get_learned_dependencies" \in raises, {},
                    get_learned_dependencies(mem, provider, request.user_id,
                                             Val(request.cell_name))),
             history \in ReadOutcome("get_notebook_history" \in raises, <<>>,
                    get_notebook_history(mem, provider, request.user_id,
                                         request.notebook_id, 3)) :
              /\ mem0_context' = [user_preferences |-> MemoryTexts(prefs),
                                  cell_patterns |-> MemoryTexts(patterns),
                                  learned_dependencies |-> deps,
                                  notebook_history |-> MemoryTexts(history)]
              /\ failed' = failed \cup raises
    /\ calls' = calls \o <<"search_user_context", "get_cell_patterns",
                           "get_learned_dependencies", "get_notebook_history">>
    /\ pc' = "analyze"
    /\ UNCHANGED <<outside, request, heap, orig, provider, mem, path, target_index, analysis,
                   all_cell_indices, cells_for_llm, modification_result,
                   modified_notebook, modified_indices, ret, sent, writes>>

(***************************************************************************)
(* _analyze_affected_cells: the oracle returns an analysis or raises; on   *)
(* an exception the method returns the target-only analysis.               *)
(***************************************************************************)
AnalyzeAffectedCells ==
    /\ pc = "analyze"
    /\ \/ /\ \E a \in AnalysisResults(Val(target_index)) : analysis' = a
          /\ failed' = failed
       \/ /\ analysis' = AnalysisFallback(Val(target_index))
          /\ failed' = failed \cup {"analysis"}
    /\ calls' = Append(calls, "oracle_analysis")
    /\ pc' = "build"
    /\ UNCHANGED <<outside, request, heap, orig, provider, mem, path, target_index,
                   mem0_context, all_cell_indices, cells_for_llm, modification_result,
                   modified_notebook, modified_indices, ret, sent, writes>>

(***************************************************************************)
(* _targeted_modification, lines 144-155: the edit set and the cells for   *)
(* the edit request; request.notebook.cells[i] raises IndexError for an i  *)
(* that is no index of the list.                                           *)
(***************************************************************************)
BuildCellsForLLM ==
    /\ pc = "build"
    /\ LET indices == Sorted({analysis.target_cell_index} \cup Range(analysis.affected_cells))
           Valid(i) == PyPos(Len(RequestCells), i) # 0
       IN  /\ all_cell_indices' = indices
           /\ IF \A k \in 1 .. Len(indices) : Valid(indices[k])
              THEN /\ cells_for_llm' =
                          [k \in 1 .. Len(indices) |->
                              [index |-> indices[k],
                               name |-> NameOrPlaceholder(RequestCell(indices[k]), indices[k]),
                               code |-> RequestCell(indices[k]).source]]
                   /\ pc' = "edit"
              ELSE /\ cells_for_llm' = <<>>
                   /\ pc' = "raised"
    /\ UNCHANGED <<outside, request, heap, orig, provider, mem, path, target_index,
                   mem0_context, analysis, modification_result, modified_notebook,
                   modified_indices, ret, calls, failed, sent, writes>>

(***************************************************************************)
(* _modify_cells_with_llm: the oracle returns a ModificationResult or      *)
(* raises; on an exception the method returns no modifications and one     *)
(* summary that holds the error.  The locals the caller no longer reads    *)
(* are dropped, and with the context the record of the reads that raised.  *)
(***************************************************************************)
ModifyCellsWithLLM(next) ==
    /\ \/ /\ \E r \in ModificationResults : modification_result' = r
          /\ failed' = failed \ MemoryReads
       \/ /\ \E e \in OracleErrors : modification_result' = ModificationFallback(e)
          /\ failed' = (failed \ MemoryReads) \cup {"edit"}
    /\ sent' = cells_for_llm
    /\ calls' = Append(calls, "oracle_edit")
    /\ cells_for_llm' = <<>>
    /\ mem0_context' = NoContext
    /\ analysis' = NoAnalysis
    /\ pc' = next
    /\ UNCHANGED <<outside, request, heap, orig, provider, mem, path, target_index,
                   all_cell_indices, modified_notebook, modified_indices, ret, writes>>

TargetedModifyCells ==
    /\ pc = "edit"
    /\ ModifyCellsWithLLM("apply")

(***************************************************************************)
(* "Apply modifications to notebook" and the requirements assignment, in   *)
(* both _targeted_modification and _notebook_level_modification.           *)
(***************************************************************************)
ApplyModifications(next) ==
    LET res == ApplyCellModifications(heap, request.notebook,
                                      modification_result.modifications)
    IN  IF res.raised
        THEN /\ pc' = "raised"
             /\ heap' = res.heap
             /\ modified_notebook' = modified_notebook
        ELSE /\ pc' = next
             /\ heap' = SetRequirements(res.heap, res.notebook,
                                        modification_result.requirements)
             /\ modified_notebook' = res.notebook

TargetedApply ==
    /\ pc = "apply"
    /\ ApplyModifications("store")
    /\ UNCHANGED <<outside, request, orig, provider, mem, path, target_index, mem0_context,
                   analysis, all_cell_indices, cells_for_llm, modification_result,
                   modified_indices, ret, calls, failed, sent, writes>>

\* the record of a memory write as it was issued
WriteCall(op, cell_name, affected_cells, operation) ==
    [op |-> op, user_id |-> request.user_id, notebook_id |-> request.notebook_id,
     cell_name |-> cell_name, affected_cells |-> affected_cells,
     operation |-> operation]

\* the names of the edit set's members other than the target, as
\* _store_targeted_modification_in_mem0 collects them
AffectedNames(all_indices, index) ==
    LET Other(i) == i # index
        others == SelectSeq(all_indices, Other)
    IN  [k \in 1 .. Len(others) |-> NameOrPlaceholder(RequestCell(others[k]), others[k])]

(***************************************************************************)
(* _store_targeted_modification_in_mem0 and the return of                  *)
(* _targeted_modification.  Each write of the memory layer catches the     *)
(* exception of its provider call, so a failed write is a skipped write.   *)
(***************************************************************************)
TargetedStoreAndReturn ==
    /\ pc = "store"
    /\ \E ok1, ok2, ok3 \in BOOLEAN :
          LET name == Val(request.cell_name)
              cascading == Len(all_cell_indices) > 1
              affected == AffectedNames(all_cell_indices, Val(target_index))
              changes == Flatten(modification_result.changes_summary)
              m1 == store_cell_modification(mem, provider, ok1, request.user_id,
                        request.notebook_id, name,
                        <<"cell_index", ToString(Val(target_index)),
                          "instruction", request.instruction, "changes">> \o changes)
              m2 == IF cascading
                    THEN store_dependency_pattern(m1, provider, ok2, request.user_id,
                             request.notebook_id, name, affected,
                             <<"Modification: ", request.instruction>>)
                    ELSE m1
              m3 == add_notebook_context(m2, provider, ok3, request.user_id,
                        request.notebook_id, "targeted_modify",
                        <<"cell_name", name, "instruction", request.instruction,
                          "cells_modified">>
                            \o [k \in 1 .. Len(all_cell_indices) |->
                                   ToString(all_cell_indices[k])]
                            \o <<"changes">> \o changes)
          IN  /\ mem' = m3
              /\ writes' = writes
                    \o <<WriteCall("store_cell_modification", Some(name), <<>>, None)>>
                    \o (IF cascading
                        THEN <<WriteCall("store_dependency_pattern", Some(name),
                                         affected, None)>>
                        ELSE <<>>)
                    \o <<WriteCall("add_notebook_context", None, <<>>,
                                   Some("targeted_modify"))>>
    /\ calls' = calls \o <<"store_cell_modification">>
                      \o (IF Len(all_cell_indices) > 1
                          THEN <<"store_dependency_pattern">> ELSE <<>>)
                      \o <<"add_notebook_context">>
    /\ ret' = [notebook |-> modified_notebook,
               changes |-> modification_result.changes_summary,
               cells_modified |-> all_cell_indices]
    /\ modification_result' = NoResult
    /\ pc' = "done"
    /\ UNCHANGED <<outside, request, heap, orig, provider, path, target_index, mem0_context,
                   analysis, all_cell_indices, cells_for_llm, modified_notebook,
                   modified_indices, failed, sent>>

(***************************************************************************)
(* _notebook_level_modification: _get_mem0_context_for_notebook and the    *)
(* full notebook context.                                                  *)
(***************************************************************************)
NotebookContext ==
    /\ pc = "notebook"
    /\ \E raises \in ReadFailures \cap
                      SUBSET {"search_user_context", "get_notebook_history"} :
          \E prefs \in ReadOutcome("search_user_context" \in raises, <<>>,
                    search_user_context(mem, provider, request.user_id, 5)),
             history \in ReadOutcome("get_notebook_history" \in raises, <<>>,
                    get_notebook_history(mem, provider, request.user_id,
                                         request.notebook_id, 5)) :
              /\ mem0_context' = [user_preferences |-> MemoryTexts(prefs),
                                  cell_patterns |-> <<>>,
                                  learned_dependencies |-> {},
                                  notebook_history |-> MemoryTexts(history)]
              /\ failed' = failed \cup raises
    /\ cells_for_llm' = [k \in 1 .. Len(RequestCells) |->
                            [index |-> k - 1,
                             name |-> NameOrPlaceholder(RequestCell(k - 1), k - 1),
                             code |-> RequestCell(k - 1).source]]
    /\ calls' = calls \o <<"search_user_context", "get_notebook_history">>
    /\ pc' = "nb_edit"
    /\ UNCHANGED <<outside, request, heap, orig, provider, mem, path, target_index, analysis,
                   all_cell_indices, modification_result, modified_notebook,
                   modified_indices, ret, sent, writes>>

NotebookModifyCells ==
    /\ pc = "nb_edit"
    /\ ModifyCellsWithLLM("nb_apply")

\* "Extract modified cell indices" follows the application of the edits
NotebookApply ==
    /\ pc = "nb_apply"
    /\ ApplyModifications("nb_store")
    /\ modified_indices' = [k \in 1 .. Len(modification_result.modifications) |->
                               modification_result.modifications[k].cell_index]
    /\ UNCHANGED <<outside, request, orig, provider, mem, path, target_index, mem0_context,
                   analysis, all_cell_indices, cells_for_llm, modification_result,
                   ret, calls, failed, sent, writes>>

(***************************************************************************)
(* _store_notebook_modification_in_mem0 and the return of                  *)
(* _notebook_level_modification.                                           *)
(***************************************************************************)
NotebookStoreAndReturn ==
    /\ pc = "nb_store"
    /\ \E ok \in BOOLEAN :
          mem' = add_notebook_context(mem, provider, ok, request.user_id,
                     request.notebook_id, "notebook_modify",
                     <<"instruction", request.instruction, "cells_modified">>
                       \o [k \in 1 .. Len(modified_indices) |->
                              ToString(modified_indices[k])]
                       \o <<"changes">> \o Flatten(modification_result.changes_summary))
    /\ writes' = Append(writes, WriteCall("add_notebook_context", None, <<>>,
                                          Some("notebook_modify")))
    /\ calls' = Append(calls, "add_notebook_context")
    /\ ret' = [notebook |-> modified_notebook,
               changes |-> modification_result.changes_summary,
               cells_modified |-> modified_indices]
    /\ modification_result' = NoResult
    /\ pc' = "done"
    /\ UNCHANGED <<outside, request, heap, orig, provider, path, target_index, mem0_context,
                   analysis, all_cell_indices, cells_for_llm, modified_notebook,
                   modified_indices, failed, sent>>

Next ==
    \/ Modify
    \/ ResolveTarget
    \/ GetMem0ContextForCell
    \/ AnalyzeAffectedCells
    \/ BuildCellsForLLM
    \/ TargetedModifyCells
    \/ TargetedApply
    \/ TargetedStoreAndReturn
    \/ NotebookContext
    \/ NotebookModifyCells
    \/ NotebookApply
    \/ NotebookStoreAndReturn

Spec == Init /\ [][Next]_vars

(***************************************************************************)
(* Two modify calls for different notebooks, interleaved.  The calls share *)
(* the memory layer (the module's global enhanced_memory) and nothing      *)
(* else.  One call runs while the other is parked in `other`; Switch       *)
(* exchanges them, so that the steps of the two calls interleave in every  *)
(* order.  The oracle is deterministic: its answer is a function of the    *)
(* prompt, which holds the target, the cells and the memory context.       *)
(***************************************************************************)
\* the state of the running call, as it is parked
Running ==
    [pc |-> pc, request |-> request, heap |-> heap, orig |-> orig, path |-> path,
     target_index |-> target_index, mem0_context |-> mem0_context,
     analysis |-> analysis, all_cell_indices |-> all_cell_indices,
     cells_for_llm |-> cells_for_llm, modification_result |-> modification_result,
     modified_notebook |-> modified_notebook, modified_indices |-> modified_indices,
     ret |-> ret, calls |-> calls, failed |-> failed, sent |-> sent,
     writes |-> writes]

\* a call that has not begun, on a generated notebook of its own
Fresh(user_id, notebook_id, cell_name) ==
    [pc |-> "modify",
     request |-> [user_id |-> user_id, notebook_id |-> notebook_id,
                  cell_name |-> cell_name, instruction |-> "instr", notebook |-> 1],
     heap |-> ArtifactHeap("generated"),
     orig |-> [cells |-> CellValues(ArtifactHeap("generated"), 1),
               objects |-> ArtifactHeap("generated").lists[1],
               requirements |-> ArtifactHeap("generated").notebooks[1].requirements],
     path |-> "", target_index |-> None, mem0_context |-> NoContext,
     analysis |-> NoAnalysis, all_cell_indices |-> <<>>, cells_for_llm |-> <<>>,
     modification_result |-> NoResult, modified_notebook |-> 0,
     modified_indices |-> <<>>, ret |-> NoReturn, calls |-> <<>>, failed |-> {},
     sent |-> <<>>, writes |-> <<>>]

\* the user identities of the second call: the first call's, another one, and
\* one that reads like the first call's scope key f"{user_id}:{notebook_id}"
SecondUsers == {"u1", "u2", "u1:nb1"}

\* the targets of the calls: a cell (targeted) or none (notebook-level)
PairCellNames == {Some("mutation"), None}

InitPair ==
    /\ provider \in BOOLEAN
    /\ mem = EmptyMemory
    /\ \E name1 \in PairCellNames :
          LET first == Fresh("u1", "nb1", name1)
          IN  /\ pc = first.pc
              /\ request = first.request
              /\ heap = first.heap
              /\ orig = first.orig
              /\ path = first.path
              /\ target_index = first.target_index
              /\ mem0_context = first.mem0_context
              /\ analysis = first.analysis
              /\ all_cell_indices = first.all_cell_indices
              /\ cells_for_llm = first.cells_for_llm
              /\ modification_result = first.modification_result
              /\ modified_notebook = first.modified_notebook
              /\ modified_indices = first.modified_indices
              /\ ret = first.ret
              /\ calls = first.calls
              /\ failed = first.failed
              /\ sent = first.sent
              /\ writes = first.writes
    /\ \E user2 \in SecondUsers, name2 \in PairCellNames :
          other = Fresh(user2, "nb2", name2)
    /\ raw_request = NoRawRequest
    /\ data = NoData
    /\ lookups = NoLookups
    /\ RestIdle

\* the parked call runs and the running call is parked
Switch ==
    /\ other # Nobody
    /\ other.pc # "done"
    /\ other' = Running
    /\ pc' = other.pc
    /\ request' = other.request
    /\ heap' = other.heap
    /\ orig' = other.orig
    /\ path' = other.path
    /\ target_index' = other.target_index
    /\ mem0_context' = other.mem0_context
    /\ analysis' = other.analysis
    /\ all_cell_indices' = other.all_cell_indices
    /\ cells_for_llm' = other.cells_for_llm
    /\ modification_result' = other.modification_result
    /\ modified_notebook' = other.modified_notebook
    /\ modified_indices' = other.modified_indices
    /\ ret' = other.ret
    /\ calls' = other.calls
    /\ failed' = other.failed
    /\ sent' = other.sent
    /\ writes' = other.writes
    /\ UNCHANGED <<provider, mem, raw_request, data, lookups, rest>>

\* whether a memory context holds anything
HasMemories(context) == context # NoContext

\* the analysis of a deterministic oracle: it names the resolved target and,
\* when the prompt shows memories, the registration cell as affected
OracleAnalysis(target, context) ==
    [target_cell_index |-> target,
     affected_cells |-> IF HasMemories(context) THEN <<9>> ELSE <<>>]

\* the edits of a deterministic oracle: one edit of cell 5 and, when the
\* prompt shows memories, an updated requirements list
OracleEdit(context) ==
    [modifications |-> <<[cell_index |-> 5, new_code |-> "x = 1  ",
                          change_description |-> "desc"]>>,
     changes_summary |-> << <<"changed">> >>,
     requirements |-> IF HasMemories(context) THEN Some("deap numpy") ELSE None]

PairAnalyzeAffectedCells ==
    /\ AnalyzeAffectedCells
    /\ failed' = failed
    /\ analysis' = OracleAnalysis(Val(target_index), mem0_context)

PairTargetedModifyCells ==
    /\ TargetedModifyCells
    /\ modification_result' = OracleEdit(mem0_context)

PairNotebookModifyCells ==
    /\ NotebookModifyCells
    /\ modification_result' = OracleEdit(mem0_context)

NextPair ==
    \/ Modify
    \/ ResolveTarget
    \/ GetMem0ContextForCell
    \/ PairAnalyzeAffectedCells
    \/ BuildCellsForLLM
    \/ PairTargetedModifyCells
    \/ TargetedApply
    \/ TargetedStoreAndReturn
    \/ NotebookContext
    \/ PairNotebookModifyCells
    \/ NotebookApply
    \/ NotebookStoreAndReturn
    \/ Switch

SpecPair == InitPair /\ [][NextPair]_<<vars, outside>>

(***************************************************************************)
(* Request parser (app/core/request_parser.py).  The texts the parser      *)
(* reads character by character (the numeric fields and the domain of      *)
(* variables) are sequences of one-character strings.  A float is          *)
(* [kind, v]: kind "num" with v in hundredths, or "nan", "inf", "-inf".    *)
(***************************************************************************)
Digits == {"0", "1", "2", "3", "4", "5", "6", "7", "8", "9"}

DigitValue(c) ==
    CASE c = "0" -> 0 [] c = "1" -> 1 [] c = "2" -> 2 [] c = "3" -> 3
      [] c = "4" -> 4 [] c = "5" -> 5 [] c = "6" -> 6 [] c = "7" -> 7
      [] c = "8" -> 8 [] c = "9" -> 9

\* whether a text is a non-empty run of digits
AllDigits(chars) == chars # <<>> /\ \A k \in 1 .. Len(chars) : chars[k] \in Digits

\* the number a run of digits writes
RECURSIVE DigitsValue(_)
DigitsValue(chars) ==
    IF chars = <<>> THEN 0
    ELSE 10 * DigitsValue(SubSeq(chars, 1, Len(chars) - 1)) + DigitValue(chars[Len(chars)])

\* str.strip() of a text: leading and trailing blanks removed
RECURSIVE StripBlanks(_)
StripBlanks(chars) ==
    IF chars = <<>> THEN chars
    ELSE IF Head(chars) = " " THEN StripBlanks(Tail(chars))
    ELSE IF chars[Len(chars)] = " " THEN StripBlanks(SubSeq(chars, 1, Len(chars) - 1))
    ELSE chars

\* Python truthiness of an Optional text: None and the empty text are falsy
TruthyText(o) == ~IsNone(o) /\ Val(o) # <<>>

\* int(text): blanks around, an optional sign, digits; None is ValueError
PyInt(chars) ==
    LET t == StripBlanks(chars)
        signed == t # <<>> /\ t[1] \in {"+", "-"}
        body == IF signed THEN Tail(t) ELSE t
    IN  IF AllDigits(body)
        THEN Some(IF signed /\ t[1] = "-" THEN 0 - DigitsValue(body) ELSE DigitsValue(body))
        ELSE None

Num(v) == [kind |-> "num", v |-> v]
NaN == [kind |-> "nan", v |-> 0]
Inf == [kind |-> "inf", v |-> 0]
NegInf == [kind |-> "-inf", v |-> 0]

\* the hundredths a fraction part of at most two digits writes
FractionValue(chars) ==
    IF chars = <<>> THEN 0
    ELSE IF Len(chars) = 1 THEN 10 * DigitValue(chars[1])
    ELSE DigitsValue(SubSeq(chars, 1, 2))

\* float(text): blanks around, an optional sign, then nan, inf, infinity or
\* digits with at most one point (exponents are not among the model's
\* inputs); None is ValueError
PyFloat(chars) ==
    LET t == StripBlanks(chars)
        signed == t # <<>> /\ t[1] \in {"+", "-"}
        negative == signed /\ t[1] = "-"
        body == IF signed THEN Tail(t) ELSE t
        points == {k \in 1 .. Len(body) : body[k] = "."}
        Signed(v) == IF negative THEN 0 - v ELSE v
    IN  IF body = <<"n", "a", "n">> THEN Some(NaN)
        ELSE IF body \in {<<"i", "n", "f">>, <<"i", "n", "f", "i", "n", "i", "t", "y">>}
        THEN Some(IF negative THEN NegInf ELSE Inf)
        ELSE IF points = {}
        THEN IF AllDigits(body) THEN Some(Num(Signed(100 * DigitsValue(body)))) ELSE None
        ELSE IF Cardinality(points) = 1
        THEN LET p == CHOOSE k \in points : TRUE
                 whole == SubSeq(body, 1, p - 1)
                 fraction == SubSeq(body, p + 1, Len(body))
             IN  IF /\ whole = <<>> \/ AllDigits(whole)
                    /\ fraction = <<>> \/ AllDigits(fraction)
                    /\ whole # <<>> \/ fraction # <<>>
                 THEN Some(Num(Signed(100 * DigitsValue(whole) + FractionValue(fraction))))
                 ELSE None
        ELSE None

\* a < b on floats: every comparison with nan is false
FloatLess(a, b) ==
    IF a.kind = "nan" \/ b.kind = "nan" THEN FALSE
    ELSE IF a.kind = "-inf" THEN b.kind # "-inf"
    ELSE IF b.kind = "inf" THEN a.kind # "inf"
    ELSE IF a.kind = "inf" \/ b.kind = "-inf" THEN FALSE
    ELSE a.v < b.v

\* Python's min(a, b) and max(a, b): the first argument unless the second
\* is smaller (greater)
PyMin(a, b) == IF FloatLess(b, a) THEN b ELSE a
PyMax(a, b) == IF FloatLess(a, b) THEN b ELSE a

\* a slip: the except ValueError branch is missing, the exception leaves
\* the function (None)
ParseIntValueNoExcept(val_str, default) ==
    IF ~TruthyText(val_str) THEN Some(default) ELSE PyInt(Val(val_str))

\* RequestParser.parse_int_value; the value returned (never an exception)
parse_int_value(val_str, default) ==
    IF ~TruthyText(val_str) THEN Some(default)
    ELSE IF IsNone(PyInt(Val(val_str))) THEN Some(default)
    ELSE PyInt(Val(val_str))

\* RequestParser.parse_solution_size
parse_solution_size(size_str, default) ==
    IF ~TruthyText(size_str) THEN Some(default)
    ELSE IF IsNone(PyInt(Val(size_str))) THEN Some(default)
    ELSE PyInt(Val(size_str))

\* a slip: the parsed value is returned as it is, not clamped
ParseProbabilityNoClamp(prob_str, default) ==
    IF ~TruthyText(prob_str) THEN Some(default)
    ELSE IF IsNone(PyFloat(Val(prob_str))) THEN Some(default)
    ELSE PyFloat(Val(prob_str))

\* RequestParser.parse_probability: max(0.0, min(1.0, val))
parse_probability(prob_str, default) ==
    IF ~TruthyText(prob_str) THEN Some(default)
    ELSE IF IsNone(PyFloat(Val(prob_str))) THEN Some(default)
    ELSE Some(PyMax(Num(0), PyMin(Num(100), Val(PyFloat(Val(prob_str))))))

\* text.split(sep)
RECURSIVE SplitOn(_, _)
SplitOn(chars, sep) ==
    LET at == {k \in 1 .. Len(chars) : chars[k] = sep}
    IN  IF at = {} THEN <<chars>>
        ELSE LET first == CHOOSE k \in at : \A j \in at : k <= j
             IN  <<SubSeq(chars, 1, first - 1)>>
                     \o SplitOn(SubSeq(chars, first + 1, Len(chars)), sep)

\* a JSON integer: an optional '-', digits, no leading zero; None is an error
JsonNumber(item) ==
    LET t == StripBlanks(item)
        negative == t # <<>> /\ t[1] = "-"
        body == IF negative THEN Tail(t) ELSE t
    IN  IF AllDigits(body) /\ (Len(body) = 1 \/ body[1] # "0")
        THEN Some(IF negative THEN 0 - DigitsValue(body) ELSE DigitsValue(body))
        ELSE None

\* json.loads of a text that starts with '[' and ends with ']', for arrays of
\* integers; None is JSONDecodeError
JsonLoads(chars) ==
    LET inner == StripBlanks(SubSeq(chars, 2, Len(chars) - 1))
        items == SplitOn(inner, ",")
    IN  IF inner = <<>> THEN Some(<<>>)
        ELSE IF \A k \in 1 .. Len(items) : ~IsNone(JsonNumber(items[k]))
        THEN Some([k \in 1 .. Len(items) |-> Val(JsonNumber(items[k]))])
        ELSE None

\* RequestParser.parse_domain_of_variables: (lower, upper); the bare except
\* turns every exception into the default
parse_domain_of_variables(domain_str) ==
    LET default == [lower |-> <<0>>, upper |-> <<1>>]
    IN  IF ~TruthyText(domain_str) THEN default
        ELSE LET text == Val(domain_str)
             IN  IF Head(text) = "[" /\ text[Len(text)] = "]" /\ Len(text) >= 2
                 THEN LET values == JsonLoads(text)
                      IN  IF IsNone(values) THEN default
                          ELSE IF Len(Val(values)) = 2
                          THEN [lower |-> <<Val(values)[1]>>, upper |-> <<Val(values)[2]>>]
                          ELSE IF Len(Val(values)) % 2 = 0
                          THEN LET mid == Len(Val(values)) \div 2
                               IN  [lower |-> SubSeq(Val(values), 1, mid),
                                    upper |-> SubSeq(Val(values), mid + 1, Len(Val(values)))]
                          ELSE default
                 ELSE default

\* RequestParser.KNOWN_FIELDS
KNOWN_FIELDS ==
    {"session_id", "problemName", "goalDescription", "fitnessDescription",
     "objectiveFunction", "objectiveType", "formalEquation",
     "solutionRepresentation", "solutionSize", "domainOfVariables",
     "constraintHandling", "constraints", "selectionMethod",
     "crossoverOperator", "crossoverProbability", "mutationOperator",
     "mutationProbability", "customOperators", "populationSize",
     "numGenerations", "terminationCondition", "terminationOther",
     "elitism", "evaluationBudget", "knownHeuristics", "exampleSolutions",
     "outputBestSolution", "outputProgressLog", "outputVisualization",
     "executionMode", "problem", "algorithm", "operators", "features",
     "preferences"}

\* getattr(request, name, None)
GetAttr(req, name) == IF name \in DOMAIN req THEN req[name] ELSE None

\* getattr(request, name, None) or default, for a field that holds a string
OrDefault(req, name, default) ==
    IF Truthy(GetAttr(req, name)) THEN Val(GetAttr(req, name)) ELSE default

\* a one-element list times n
Times(list, n) == [k \in 1 .. n |-> list[1]]

\* the extra fields of request.model_dump(): not known, not None
ExtraFields(req) == {f \in DOMAIN req : f \notin KNOWN_FIELDS /\ ~IsNone(req[f])}

\* RequestParser.extract_structured_data; raised: an exception left it.  The
\* keys it fills with `getattr(...) or default` from a string field are
\* modelled by problem_name and termination_condition.
extract_structured_data(req) ==
    LET size == parse_solution_size(GetAttr(req, "solutionSize"), 10)
        domain == parse_domain_of_variables(GetAttr(req, "domainOfVariables"))
        cx == parse_probability(GetAttr(req, "crossoverProbability"), Num(70))
        mut == parse_probability(GetAttr(req, "mutationProbability"), Num(20))
        pop == parse_int_value(GetAttr(req, "populationSize"), 100)
        gen == parse_int_value(GetAttr(req, "numGenerations"), 50)
        extras == ExtraFields(req)
    IN  IF IsNone(size) \/ IsNone(cx) \/ IsNone(mut) \/ IsNone(pop) \/ IsNone(gen)
        THEN [raised |-> TRUE]
        ELSE [raised |-> FALSE,
              problem_name |-> OrDefault(req, "problemName", "Optimization Problem"),
              solution_size |-> Val(size),
              lower_bounds |-> IF Len(domain.lower) = 1
                               THEN Times(domain.lower, Val(size)) ELSE domain.lower,
              upper_bounds |-> IF Len(domain.upper) = 1
                               THEN Times(domain.upper, Val(size)) ELSE domain.upper,
              crossover_probability |-> Val(cx),
              mutation_probability |-> Val(mut),
              population_size |-> Val(pop),
              num_generations |-> Val(gen),
              termination_condition |->
                  OrDefault(req, "terminationCondition", "maxGenerations"),
              other_specifications |->
                  IF extras = {} THEN None
                  ELSE Some([f \in extras |-> Val(req[f])])]

(***************************************************************************)
(* The raw requests given to the parser: request.model_dump() as a        *)
(* function from field names to Optional values.                          *)
(***************************************************************************)
\* solutionSize: absent, "", "3", " 7 ", "-2", "3.5", "ten"
SolutionSizes ==
    {None, Some(<<>>), Some(<<"3">>), Some(<<" ", "7", " ">>),
     Some(<<"-", "2">>), Some(<<"3", ".", "5">>), Some(<<"t", "e", "n">>)}

\* crossoverProbability: absent, "", "0.5", "-0.3", "1.7", "nan", "inf", "-inf", " .25 ", "abc"
CrossoverProbabilities ==
    {None, Some(<<>>), Some(<<"0", ".", "5">>),
     Some(<<"-", "0", ".", "3">>), Some(<<"1", ".", "7">>),
     Some(<<"n", "a", "n">>), Some(<<"i", "n", "f">>),
     Some(<<"-", "i", "n", "f">>), Some(<<" ", ".", "2", "5", " ">>),
     Some(<<"a", "b", "c">>)}

\* mutationProbability: absent, "2", "high"
MutationProbabilities ==
    {None, Some(<<"2">>), Some(<<"h", "i", "g", "h">>)}

\* populationSize: absent, "200", "2e2"
PopulationSizes ==
    {None, Some(<<"2", "0", "0">>), Some(<<"2", "e", "2">>)}

\* numGenerations: absent, "8O" (a letter for the zero)
GenerationCounts ==
    {None, Some(<<"8", "O">>)}

\* domainOfVariables: absent, "[0,1]", "[-5, 5]", "[0,1,2,3]", "[0,1,2]", "[]", "[7]", "0,1", "[0,1", "[a,b]"
Domains ==
    {None, Some(<<"[", "0", ",", "1", "]">>),
     Some(<<"[", "-", "5", ",", " ", "5", "]">>),
     Some(<<"[", "0", ",", "1", ",", "2", ",", "3", "]">>),
     Some(<<"[", "0", ",", "1", ",", "2", "]">>), Some(<<"[", "]">>),
     Some(<<"[", "7", "]">>), Some(<<"0", ",", "1">>),
     Some(<<"[", "0", ",", "1">>), Some(<<"[", "a", ",", "b", "]">>)}

\* the requests: the identities the generator reads (request.user_id,
\* request.notebook_id), the fields the parser reads, and a field it does
\* not know
RawRequests ==
    [user_id : {Some("u1")},
     notebook_id : {Some("nb1")},
     session_id : {None, Some("s1")},
     customNote : {None, Some("keep it short")},
     problemName : {None},
     solutionSize : SolutionSizes,
     domainOfVariables : Domains,
     crossoverProbability : CrossoverProbabilities,
     mutationProbability : MutationProbabilities,
     populationSize : PopulationSizes,
     numGenerations : GenerationCounts,
     terminationCondition : {None, Some("timeLimit")}]

\* the modify call's state while the parser or the catalog is exercised
ModifyIdle ==
    /\ pc = "idle"
    /\ request = Fresh("u1", "nb1", None).request
    /\ heap = ArtifactHeap("generated")
    /\ orig = Fresh("u1", "nb1", None).orig
    /\ provider = FALSE
    /\ mem = EmptyMemory
    /\ path = ""
    /\ target_index = None
    /\ mem0_context = NoContext
    /\ analysis = NoAnalysis
    /\ all_cell_indices = <<>>
    /\ cells_for_llm = <<>>
    /\ modification_result = NoResult
    /\ modified_notebook = 0
    /\ modified_indices = <<>>
    /\ ret = NoReturn
    /\ calls = <<>>
    /\ failed = {}
    /\ sent = <<>>
    /\ writes = <<>>

InitParser ==
    /\ ModifyIdle
    /\ other = Nobody
    /\ lookups = NoLookups
    /\ raw_request \in RawRequests
    /\ data = NoData
    /\ RestIdle

\* NotebookGenerator.generate, line 33: the request is parsed
ExtractStructuredData ==
    /\ data = NoData
    /\ data' = Some(extract_structured_data(raw_request))
    /\ UNCHANGED <<vars, other, raw_request, lookups, rest>>

NextParser == ExtractStructuredData

SpecParser == InitParser /\ [][NextParser]_<<vars, outside>>

(***************************************************************************)
(* Lookups in the cell catalog (CellNameMapper), in the modifier's         *)
(* CELL_MAP and in the names of the generator's fallback notebook.  A      *)
(* lookup is [op, index, name]; index is Optional.  A lookup is made on a  *)
(* fresh argument or on what the lookup before it dealt with.              *)
(***************************************************************************)
\* cell_names of LLMCellGenerator._fallback_complete_notebook
FALLBACK_CELL_NAMES ==
    <<"imports", "config", "creator", "evaluate", "crossover", "mutation",
      "selection", "additional_operators", "initialization",
      "toolbox_registration", "evolution_loop", "results_and_plots">>

\* the indices looked up: those of the catalog and some outside it
LookupIndices == (0 - 2) .. (NumCells + 1)

\* the names looked up: the catalog's, the keys of CELL_MAP, a placeholder
\* and a name nothing knows
LookupNames == CatalogNames \cup DOMAIN CELL_MAP \cup {"cell_12", "not_a_real_cell", ""}

\* the arguments of the next lookup
NextIndices ==
    IF lookups = <<>> THEN LookupIndices
    ELSE IF IsNone(lookups[Len(lookups)].index) THEN {}
    ELSE {Val(lookups[Len(lookups)].index)}

NextNames == IF lookups = <<>> THEN LookupNames ELSE {lookups[Len(lookups)].name}

\* the lookups made so far are all lookups in the dependency table
OnlyDependencyLookups ==
    \A k \in 1 .. Len(lookups) :
        lookups[k].op \in {"get_dependent_cells", "get_cells_dependent_on"}

InitCatalog ==
    /\ ModifyIdle
    /\ other = Nobody
    /\ raw_request = NoRawRequest
    /\ data = NoData
    /\ lookups = NoLookups
    /\ RestIdle

\* CellNameMapper.get_cell_name(index)
NameOf ==
    /\ Len(lookups) < MaxLookups
    /\ ~(lookups # <<>> /\ OnlyDependencyLookups)
    /\ \E i \in NextIndices :
          lookups' = Append(lookups, [op |-> "get_cell_name", index |-> Some(i),
                                      name |-> get_cell_name(i)])
    /\ UNCHANGED <<vars, other, raw_request, data, rest>>

\* CellNameMapper.get_index_by_name(cell_name)
IndexOf ==
    /\ Len(lookups) < MaxLookups
    /\ ~(lookups # <<>> /\ OnlyDependencyLookups)
    /\ \E n \in NextNames :
          lookups' = Append(lookups, [op |-> "get_index_by_name",
                                      index |-> Some(get_index_by_name(n)),
                                      name |-> n])
    /\ UNCHANGED <<vars, other, raw_request, data, rest>>

\* NotebookModifier._get_cell_index(cell_name)
ResolveName ==
    /\ Len(lookups) < MaxLookups
    /\ ~(lookups # <<>> /\ OnlyDependencyLookups)
    /\ \E n \in NextNames :
          lookups' = Append(lookups, [op |-> "_get_cell_index",
                                      index |-> GetCellIndex(n), name |-> n])
    /\ UNCHANGED <<vars, other, raw_request, data, rest>>

\* the name of cell i of the generator's fallback notebook
FallbackNameOf ==
    /\ Len(lookups) < MaxLookups
    /\ ~(lookups # <<>> /\ OnlyDependencyLookups)
    /\ \E i \in NextIndices \cap CellIndices :
          lookups' = Append(lookups, [op |-> "fallback_cell_name", index |-> Some(i),
                                      name |-> FALLBACK_CELL_NAMES[i + 1]])
    /\ UNCHANGED <<vars, other, raw_request, data, rest>>

\* CELL_DEPENDENCIES: the cells each cell depends on
CELL_DEPENDENCIES ==
    ("toolbox_registration" :>
         <<"evaluate", "crossover", "mutation", "selection", "initialization">>)
    @@ ("evolution_loop" :> <<"toolbox_registration", "config">>)
    @@ ("results_and_plots" :> <<"evolution_loop">>)

\* get_dependent_cells: CELL_DEPENDENCIES.get(cell_name, [])
get_dependent_cells(cell_name) ==
    IF cell_name \in DOMAIN CELL_DEPENDENCIES THEN CELL_DEPENDENCIES[cell_name] ELSE <<>>

\* the keys of CELL_DEPENDENCIES in the order of the dictionary
DependencyKeys == <<"toolbox_registration", "evolution_loop", "results_and_plots">>

\* a slip: the table's keys themselves are taken for the dependents
GetDependentCellsOfKey(cell_name) ==
    IF cell_name \in DOMAIN CELL_DEPENDENCIES THEN <<cell_name>> ELSE <<>>

\* get_cells_dependent_on: the keys whose list holds cell_name, in order
get_cells_dependent_on(cell_name) ==
    LET Holds(cell) == cell_name \in Range(CELL_DEPENDENCIES[cell])
    IN  SelectSeq(DependencyKeys, Holds)

\* the names the dependency table is asked about
DependencyNames == CatalogNames \cup {"not_a_real_cell"}

\* get_dependent_cells(cell_name)
DependenciesOf ==
    /\ Len(lookups) < MaxLookups
    /\ OnlyDependencyLookups
    /\ \E n \in DependencyNames :
          lookups' = Append(lookups, [op |-> "get_dependent_cells", index |-> None,
                                      name |-> n, cells |-> get_dependent_cells(n)])
    /\ UNCHANGED <<vars, other, raw_request, data, rest>>

\* get_cells_dependent_on(cell_name)
DependentsOf ==
    /\ Len(lookups) < MaxLookups
    /\ OnlyDependencyLookups
    /\ \E n \in DependencyNames :
          lookups' = Append(lookups, [op |-> "get_cells_dependent_on", index |-> None,
                                      name |-> n, cells |-> get_cells_dependent_on(n)])
    /\ UNCHANGED <<vars, other, raw_request, data, rest>>

NextCatalog ==
    \/ NameOf
    \/ IndexOf
    \/ ResolveName
    \/ FallbackNameOf
    \/ DependenciesOf
    \/ DependentsOf

SpecCatalog == InitCatalog /\ [][NextCatalog]_<<vars, outside>>

(***************************************************************************)
(* The memory layer under a sequence of operations of several users: what  *)
(* a generate, a targeted modify, a notebook-level modify and a fix store. *)
(* Each write issued is logged in writes with the operation's number, the  *)
(* user and notebook it was issued for, and the record the in-process      *)
(* store keeps for it.  A provider that is down fails every write of the   *)
(* operation.                                                              *)
(***************************************************************************)
\* user identities, one of them holding the separator of the scope key
MemoryUsers == {"u1", "u2", "u1:nb1"}

\* the (user, notebook) pairs the operations are issued for
MemoryScopes ==
    {<<"u1", "nb1">>, <<"u1", "nb2">>, <<"u2", "nb1">>, <<"u1:nb1", "nb2">>}

\* the target names of the stored modifications
StoredCellNames == {"mutation", "mutate"}

\* the names of the affected cells of a stored modification
StoredAffected == {<<>>, <<"toolbox_registration">>}

\* the instruction each user sends
InstructionOf(user_id) == "instruction of " \o user_id

\* the record the in-process store keeps for one write: the same write
\* issued to an empty in-process store
KeptRecord(m) ==
    LET key == CHOOSE k \in DOMAIN m.fallback : TRUE
    IN  [key |-> key, type |-> m.fallback[key][1].type,
         content |-> m.fallback[key][1].content]

\* the log entry of a write; source_cell and affected_cells are those of a
\* dependency pattern
StoreCall(n, user_id, notebook_id, persisted, cell_name, affected_cells, kept) ==
    [n |-> n, user_id |-> user_id, notebook_id |-> notebook_id,
     persisted |-> persisted, cell_name |-> cell_name,
     affected_cells |-> affected_cells, key |-> kept.key, type |-> kept.type,
     content |-> kept.content]

\* the operations that have stored so far
OperationsDone == IF writes = <<>> THEN 0 ELSE writes[Len(writes)].n

\* details of NotebookGenerator._store_generation_in_mem0 for a request
\* that names the problem after its user and leaves the operators to the
\* parser's defaults
GenerationDetails(user_id) ==
    <<"problem_name", "problem of " \o user_id, "problem_type", "general_optimization",
      "operators", "tournament", "blend", "gaussian", "solution_size", "10",
      "algorithm_type", "simple">>

\* the preferences _store_generation_in_mem0 stores, in order
GenerationPreferences ==
    <<[type |-> "selection_operator", value |-> "tournament"],
      [type |-> "crossover_operator", value |-> "blend"],
      [type |-> "mutation_operator", value |-> "gaussian"],
      [type |-> "problem_type", value |-> "general_optimization"]>>

RECURSIVE AddPreferences(_, _, _, _, _)
AddPreferences(m, prov, ok, user_id, prefs) ==
    IF prefs = <<>> THEN m
    ELSE AddPreferences(add_user_preference(m, prov, ok, user_id, Head(prefs).type,
                                            Head(prefs).value),
                        prov, ok, user_id, Tail(prefs))

InitMemory ==
    /\ pc = "idle"
    /\ request = Fresh("u1", "nb1", None).request
    /\ heap = ArtifactHeap("generated")
    /\ orig = Fresh("u1", "nb1", None).orig
    /\ provider \in BOOLEAN
    /\ mem = EmptyMemory
    /\ path = ""
    /\ target_index = None
    /\ mem0_context = NoContext
    /\ analysis = NoAnalysis
    /\ all_cell_indices = <<>>
    /\ cells_for_llm = <<>>
    /\ modification_result = NoResult
    /\ modified_notebook = 0
    /\ modified_indices = <<>>
    /\ ret = NoReturn
    /\ calls = <<>>
    /\ failed = {}
    /\ sent = <<>>
    /\ writes = <<>>
    /\ OutsideIdle

\* what the store actions leave alone
StoreFrame ==
    UNCHANGED <<outside, pc, request, heap, orig, provider, path, locals, ret, calls,
                failed, sent>>

\* NotebookGenerator._store_generation_in_mem0
GenerateStore ==
    /\ OperationsDone < MaxOperations
    /\ \E scope \in MemoryScopes, ok \in BOOLEAN :
          LET user_id == scope[1]
              notebook_id == scope[2]
              n == OperationsDone + 1
              details == GenerationDetails(user_id)
              m1 == add_notebook_context(mem, provider, ok, user_id, notebook_id,
                                         "generate", details)
          IN  /\ mem' = AddPreferences(m1, provider, ok, user_id, GenerationPreferences)
              /\ writes' = writes
                    \o <<StoreCall(n, user_id, Some(notebook_id), ok \/ ~provider, None, <<>>,
                           KeptRecord(add_notebook_context(EmptyMemory, FALSE, TRUE,
                               user_id, notebook_id, "generate", details)))>>
                    \o [k \in 1 .. Len(GenerationPreferences) |->
                           StoreCall(n, user_id, None, ok \/ ~provider, None, <<>>,
                               KeptRecord(add_user_preference(EmptyMemory, FALSE, TRUE,
                                   user_id, GenerationPreferences[k].type,
                                   GenerationPreferences[k].value)))]
    /\ StoreFrame

\* NotebookModifier._store_targeted_modification_in_mem0 for target name
\* cell_name and the names of the other cells of the edit set
TargetedStore ==
    /\ OperationsDone < MaxOperations
    /\ \E scope \in MemoryScopes, ok \in BOOLEAN,
          cell_name \in StoredCellNames, affected \in StoredAffected :
          LET user_id == scope[1]
              notebook_id == scope[2]
              n == OperationsDone + 1
              instruction == InstructionOf(user_id)
              details == <<"cell_index", ToString(Val(GetCellIndex(cell_name))),
                           "instruction", instruction, "changes", "changed">>
              reason == <<"Modification: ", instruction>>
              context == <<"cell_name", cell_name, "instruction", instruction,
                           "cells_modified", "changes", "changed">>
              cascading == affected # <<>>
              m1 == store_cell_modification(mem, provider, ok, user_id, notebook_id,
                                            cell_name, details)
              m2 == IF cascading
                    THEN store_dependency_pattern(m1, provider, ok, user_id,
                             notebook_id, cell_name, affected, reason)
                    ELSE m1
          IN  /\ mem' = add_notebook_context(m2, provider, ok, user_id, notebook_id,
                                             "targeted_modify", context)
              /\ writes' = writes
                    \o <<StoreCall(n, user_id, Some(notebook_id), ok \/ ~provider,
                           Some(cell_name), <<>>,
                           KeptRecord(store_cell_modification(EmptyMemory, FALSE, TRUE,
                               user_id, notebook_id, cell_name, details)))>>
                    \o (IF cascading
                        THEN <<StoreCall(n, user_id, Some(notebook_id), ok \/ ~provider,
                                 Some(cell_name), affected,
                                 KeptRecord(store_dependency_pattern(EmptyMemory, FALSE,
                                     TRUE, user_id, notebook_id, cell_name, affected,
                                     reason)))>>
                        ELSE <<>>)
                    \o <<StoreCall(n, user_id, Some(notebook_id), ok \/ ~provider, None, <<>>,
                           KeptRecord(add_notebook_context(EmptyMemory, FALSE, TRUE,
                               user_id, notebook_id, "targeted_modify", context)))>>
    /\ StoreFrame

\* NotebookModifier._store_notebook_modification_in_mem0
NotebookStore ==
    /\ OperationsDone < MaxOperations
    /\ \E scope \in MemoryScopes, ok \in BOOLEAN :
          LET user_id == scope[1]
              notebook_id == scope[2]
              details == <<"instruction", InstructionOf(user_id), "cells_modified",
                           "changes", "changed">>
          IN  /\ mem' = add_notebook_context(mem, provider, ok, user_id, notebook_id,
                                             "notebook_modify", details)
              /\ writes' = Append(writes,
                     StoreCall(OperationsDone + 1, user_id, Some(notebook_id),
                         ok \/ ~provider, None, <<>>,
                         KeptRecord(add_notebook_context(EmptyMemory, FALSE, TRUE,
                             user_id, notebook_id, "notebook_modify", details))))
    /\ StoreFrame

\* EnhancedMemory.store_error_pattern, as a fix stores an error and its fix
ErrorStore ==
    /\ OperationsDone < MaxOperations
    /\ \E scope \in MemoryScopes, ok \in BOOLEAN :
          LET user_id == scope[1]
              notebook_id == scope[2]
          IN  /\ mem' = store_error_pattern(mem, provider, ok, user_id, notebook_id,
                            "NameError", "cell 5", "fix of " \o user_id)
              /\ writes' = Append(writes,
                     StoreCall(OperationsDone + 1, user_id, Some(notebook_id),
                         ok \/ ~provider, None, <<>>,
                         KeptRecord(store_error_pattern(EmptyMemory, FALSE, TRUE,
                             user_id, notebook_id, "NameError", "cell 5",
                             "fix of " \o user_id))))
    /\ StoreFrame

NextMemory ==
    \/ GenerateStore
    \/ TargetedStore
    \/ NotebookStore
    \/ ErrorStore

SpecMemory == InitMemory /\ [][NextMemory]_<<vars, outside>>

(***************************************************************************)
(* Concurrent callers of EnhancedMemory._fallback_add.  The method is      *)
(*     if key not in self._fallback_memory:                                *)
(*         self._fallback_memory[key] = []                                 *)
(*     self._fallback_memory[key].append({...})                            *)
(* and a caller may be preempted between the membership test, the          *)
(* assignment, the subscription and the append.  fallback_memory.dict maps *)
(* a key to a list object, fallback_memory.lists holds the list objects.   *)
(***************************************************************************)
CallerIds == 1 .. NumCallers

\* the scope keys the callers append to
AppendKeys == {"u1:nb1", "u2:nb1"}

\* the record a caller appends
RecordOf(i) == [type |-> "notebook_context", content |-> <<"record of caller ", ToString(i)>>]

\* a record stored before the callers began
EarlierRecord == [type |-> "notebook_context", content |-> <<"earlier record">>]

\* the dictionary before the callers begin: empty, or with one key present
InitialFallbackMemories ==
    {EmptyFallbackMemory,
     [dict |-> ("u1:nb1" :> 1), lists |-> << <<EarlierRecord>> >>]}

InitAppend ==
    /\ ModifyIdle
    /\ other = Nobody
    /\ raw_request = NoRawRequest
    /\ data = NoData
    /\ lookups = NoLookups
    /\ final_state = NoFinalState
    /\ response = NoResponse
    /\ fallback_memory \in InitialFallbackMemories
    /\ \E keys \in [CallerIds -> AppendKeys] :
          callers = [i \in CallerIds |-> [pc |-> "check", key |-> keys[i], list |-> 0]]

\* what the steps of a caller leave alone
AppendFrame == UNCHANGED <<vars, other, raw_request, data, lookups, final_state, response>>

\* if key not in self._fallback_memory (line 402)
FallbackCheck(i) ==
    /\ callers[i].pc = "check"
    /\ callers' = [callers EXCEPT ![i].pc =
                      IF callers[i].key \in DOMAIN fallback_memory.dict
                      THEN "fetch" ELSE "create"]
    /\ UNCHANGED fallback_memory
    /\ AppendFrame

\* self._fallback_memory[key] = []
FallbackCreate(i) ==
    /\ callers[i].pc = "create"
    /\ fallback_memory' =
           [dict |-> (callers[i].key :> Len(fallback_memory.lists) + 1)
                         @@ fallback_memory.dict,
            lists |-> Append(fallback_memory.lists, <<>>)]
    /\ callers' = [callers EXCEPT ![i].pc = "fetch"]
    /\ AppendFrame

\* self._fallback_memory[key]
FallbackFetch(i) ==
    /\ callers[i].pc = "fetch"
    /\ callers' = [callers EXCEPT ![i].pc = "append",
                                  ![i].list = fallback_memory.dict[callers[i].key]]
    /\ UNCHANGED fallback_memory
    /\ AppendFrame

\* .append({"type": data_type, "content": content})
FallbackAppend(i) ==
    /\ callers[i].pc = "append"
    /\ fallback_memory' =
           [fallback_memory EXCEPT !.lists[callers[i].list] = Append(@, RecordOf(i))]
    /\ callers' = [callers EXCEPT ![i].pc = "done"]
    /\ AppendFrame

NextAppend ==
    \/ \E i \in CallerIds : FallbackCheck(i)
    \/ \E i \in CallerIds : FallbackCreate(i)
    \/ \E i \in CallerIds : FallbackFetch(i)
    \/ \E i \in CallerIds : FallbackAppend(i)

SpecAppend == InitAppend /\ [][NextAppend]_<<vars, outside>>

(***************************************************************************)
(* The workflow and the route around a modify call (app/graph.py,          *)
(* app/routes/modify.py).  The graph has one node per operation and every  *)
(* node leads to END, so executing a modify state is _modify_node.         *)
(***************************************************************************)
\* the WorkflowState the route builds: nothing produced yet
InitialState ==
    [notebook |-> None, changes_made |-> <<>>, cells_modified |-> <<>>,
     validation_passed |-> FALSE, error |-> None]

\* str(e) of the IndexError a list subscription raises
IndexErrorText == "list index out of range"

\* a node whose except branch records nothing
ModifyNodeSilent(state, raised, result) ==
    IF raised
    THEN state
    ELSE [state EXCEPT !.notebook = Some(result.notebook),
                       !.changes_made = result.changes,
                       !.cells_modified = result.cells_modified,
                       !.validation_passed = TRUE]

\* _modify_node: the try around self.modifier.modify(request); raised says the
\* call ended with an exception, result is the tuple it returned otherwise
ModifyNode(state, raised, result) ==
    IF raised
    THEN [state EXCEPT !.error = Some(IndexErrorText),
                       !.validation_passed = FALSE]
    ELSE [state EXCEPT !.notebook = Some(result.notebook),
                       !.changes_made = result.changes,
                       !.cells_modified = result.cells_modified,
                       !.validation_passed = TRUE]

\* what modify_notebook answers for the state execute returned: an internal
\* error when an error is held and no notebook, the ModifyResponse otherwise
RouteAnswer(state) ==
    IF Truthy(state.error) /\ IsNone(state.notebook)
    THEN [status |-> 500, notebook |-> None, changes_made |-> <<>>,
          cells_modified |-> <<>>]
    ELSE [status |-> 200, notebook |-> state.notebook,
          changes_made |-> state.changes_made,
          cells_modified |-> state.cells_modified]

\* NotebookWorkflow.execute once the modify call has ended
Execute ==
    /\ pc \in {"done", "raised"}
    /\ final_state = NoFinalState
    /\ final_state' = Some(ModifyNode(InitialState, pc = "raised", ret))
    /\ UNCHANGED <<vars, other, raw_request, data, lookups, callers, fallback_memory,
                   response>>

\* modify_notebook from `final_state = workflow.execute(state)` on
ModifyNotebook ==
    /\ final_state # NoFinalState
    /\ response = NoResponse
    /\ response' = Some(RouteAnswer(Val(final_state)))
    /\ UNCHANGED <<vars, other, raw_request, data, lookups, callers, fallback_memory,
                   final_state>>

NextWorkflow ==
    \/ Modify
    \/ ResolveTarget
    \/ GetMem0ContextForCell
    \/ AnalyzeAffectedCells
    \/ BuildCellsForLLM
    \/ TargetedModifyCells
    \/ TargetedApply
    \/ TargetedStoreAndReturn
    \/ NotebookContext
    \/ NotebookModifyCells
    \/ NotebookApply
    \/ NotebookStoreAndReturn
    \/ Execute
    \/ ModifyNotebook

SpecWorkflow == Init /\ [][NextWorkflow]_<<vars, outside>>

(***************************************************************************)
(* Properties.                                                             *)
(***************************************************************************)
\* the edits of the pending result applied, the notebook not yet returned
Applied == pc \in {"store", "nb_store"}

\* the cells of the notebook _apply_cell_modifications returned, by value
OutCells == CellValues(heap, modified_notebook)

\* the edits of the pending result that name index i
EditsOf(i) ==
    {k \in 1 .. Len(modification_result.modifications) :
         modification_result.modifications[k].cell_index = i}

\* the cell an edit of index i leaves at i: the old role, the formatted new
\* code of the last such edit, not yet run
EditedCell(i) ==
    LET last == CHOOSE k \in EditsOf(i) : \A j \in EditsOf(i) : j <= k
    IN  [cell_type |-> "code",
         cell_name |-> orig.cells[i + 1].cell_name,
         source |-> format_code(modification_result.modifications[last].new_code),
         execution_count |-> None,
         metadata |-> DefaultMetadata]

\* C1: whatever edit list the oracle returns (any indices, 12 and -1 among
\* them, duplicates too), applying it raises nothing, leaves every segment
\* that no edit with an index in 0..11 names as it was, and returns an
\* artifact of exactly 12 segments, in targeted and in notebook-level
\* modification.
C1_EditApplicationBounded ==
    /\ pc = "raised" => "oracle_edit" \notin Range(calls)
    /\ Applied =>
          /\ Len(OutCells) = NumCells
          /\ \A i \in CellIndices :
                OutCells[i + 1] = IF EditsOf(i) = {} THEN orig.cells[i + 1]
                                  ELSE EditedCell(i)
    /\ pc = "done" => Len(CellValues(heap, ret.notebook)) = NumCells

\* C1 witness: a targeted call applied an edit list that names both -1 and 12
C1_Witness ==
    /\ pc = "store"
    /\ EditsOf(-1) # {}
    /\ EditsOf(12) # {}

\* C2: after a targeted modification every segment whose index is not in
\* the returned edit set equals, by value, the input's segment at that index.
C2_UnlistedSegmentsIdentical ==
    (pc = "done" /\ path = "targeted") =>
        \A i \in CellIndices :
            i \notin Range(ret.cells_modified) =>
                CellValues(heap, ret.notebook)[i + 1] = orig.cells[i + 1]

\* how many entries of the cells argument hold segment i (the sources of the
\* segments all differ)
TimesSent(cells, i) == Cardinality({k \in 1 .. Len(cells) : cells[k].code = SOURCES[i]})

\* C3: the cells passed to the edit-request oracle call of a targeted
\* modification are exactly the segments whose index is in
\* {analysis target} \cup additional indices, each once, and no other segment.
C3_OnlyAnalysedSegmentsSent ==
    pc = "edit" =>
        LET S == {analysis.target_cell_index} \cup Range(analysis.affected_cells)
        IN  \A i \in CellIndices :
                TimesSent(cells_for_llm, i) = IF i \in S THEN 1 ELSE 0

\* C4: when the analysis oracle call fails, the analysis is target-only,
\* modify returns, and the edit set it returns is [targetIndex], the index
\* the target name resolved to.
C4_AnalysisFailureTargetOnly ==
    "analysis" \in failed =>
        LET targetIndex == CELL_MAP[Strip(Lower(Val(request.cell_name)))]
        IN  /\ pc # "raised"
            /\ pc = "build" => analysis = [target_cell_index |-> targetIndex,
                                           affected_cells |-> <<>>]
            /\ pc \in {"edit", "apply", "store", "done"} =>
                   all_cell_indices = <<targetIndex>>
            /\ pc = "done" => ret.cells_modified = <<targetIndex>>

\* C4 witness: a call for target "mutation" returned after its analysis failed
C4_Witness ==
    /\ pc = "done"
    /\ "analysis" \in failed
    /\ request.cell_name = Some("mutation")
    /\ ret.cells_modified = <<5>>

\* a request whose target name is absent, empty or resolves to no index
NoResolvedTarget ==
    \/ ~Truthy(request.cell_name)
    \/ Strip(Lower(Val(request.cell_name))) \notin DOMAIN CELL_MAP

\* the collaborator calls of a notebook-level modification, in order
NotebookLevelCalls ==
    <<"search_user_context", "get_notebook_history", "oracle_edit",
      "add_notebook_context">>

\* the records the memory layer holds, whatever backs it
AllRecords ==
    {[type |-> mem.provider[k].metadata.type, text |-> mem.provider[k].memory] :
         k \in 1 .. Len(mem.provider)}
    \cup UNION {{[type |-> mem.fallback[key][k].type,
                  text |-> mem.fallback[key][k].content] :
                     k \in 1 .. Len(mem.fallback[key])} : key \in DOMAIN mem.fallback}

\* C5: a target name that resolves to no index (such as "not_a_real_cell")
\* makes modify behave as a call without a target: no affected-segment
\* oracle call, all 12 segments sent to the one edit-request call, the
\* notebook-level result returned, and the notebook-level memory traffic
\* (one operation-context write, no cell-modification or dependency fact).
C5_UnresolvedNameIsNotebookLevel ==
    NoResolvedTarget =>
        /\ pc \in {"modify", "targeted", "notebook", "nb_edit", "nb_apply",
                   "nb_store", "done"}
        /\ pc \notin {"modify", "targeted"} => path = "notebook"
        /\ \A k \in 1 .. Len(calls) : calls[k] = NotebookLevelCalls[k]
        /\ \A r \in AllRecords : r.type = "notebook_context"
        /\ pc = "done" =>
              /\ calls = NotebookLevelCalls
              /\ [k \in 1 .. Len(sent) |-> sent[k].code] =
                     [k \in 1 .. NumCells |-> SOURCES[k - 1]]
              /\ writes = <<[op |-> "add_notebook_context",
                             user_id |-> request.user_id,
                             notebook_id |-> request.notebook_id,
                             cell_name |-> None, affected_cells |-> <<>>,
                             operation |-> Some("notebook_modify")]>>
              /\ Cardinality(AllRecords) <= 1
              /\ \A r \in AllRecords :
                     \A k \in 1 .. Len(r.text) :
                         r.text[k] # "cell_name"
                         /\ (Truthy(request.cell_name) =>
                                 r.text[k] # Val(request.cell_name))
              /\ ret.notebook = modified_notebook
              /\ ret.cells_modified = modified_indices

\* C5 witness: a call with target "not_a_real_cell" returned after sending
\* twelve cells to the oracle
C5_Witness ==
    /\ pc = "done"
    /\ request.cell_name = Some("not_a_real_cell")
    /\ Len(sent) = NumCells
    /\ AllRecords # {}

\* C6: modify called with the catalog's name of index i as target, for each
\* i in 0..11, runs targeted modification with target index i.
C6_CatalogNamesRunTargeted ==
    (/\ ~IsNone(request.cell_name)
     /\ Val(request.cell_name) \in CatalogNames
     /\ pc \notin {"modify", "targeted"}) =>
        /\ path = "targeted"
        /\ target_index = Some(get_index_by_name(Val(request.cell_name)))

\* the dependency-pattern writes issued so far
DependencyWrites ==
    LET IsDep(w) == w.op = "store_dependency_pattern"
    IN  SelectSeq(writes, IsDep)

\* C7: a targeted modification whose edit set has more than one member
\* writes exactly one Dependency Pattern fact, its source the target's role
\* and its affected roles exactly the roles of the other members; one whose
\* edit set has a single member writes none.  (Stated for edit sets whose
\* members are indices of segments, the only ones that have a role.)
C7_DependencyPatternOfTargetRole ==
    (pc = "done" /\ path = "targeted" /\ Range(ret.cells_modified) \subseteq CellIndices) =>
        LET t == Val(target_index)
            others == Range(ret.cells_modified) \ {t}
        IN  IF Len(ret.cells_modified) > 1
            THEN /\ Len(DependencyWrites) = 1
                 /\ DependencyWrites[1].cell_name = Some(get_cell_name(t))
                 /\ Range(DependencyWrites[1].affected_cells) =
                        {NameOrPlaceholder(RequestCell(i), i) : i \in others}
            ELSE DependencyWrites = <<>>

\* C8: whatever the collaborators do, modify returns and never raises.
C8_ModifyNeverRaises == pc # "raised"

\* C9: the notebook of the request is never changed (its list of cells, the
\* cells and the requirements are what they were when the call began), and
\* the returned notebook shares neither the list nor a cell with it.
C9_RequestNotebookUntouched ==
    /\ heap.notebooks[request.notebook].cells = 1
    /\ heap.lists[1] = orig.objects
    /\ CellValues(heap, request.notebook) = orig.cells
    /\ heap.notebooks[request.notebook].requirements = orig.requirements
    /\ \A n \in {modified_notebook, ret.notebook} \ {0} :
          /\ n # request.notebook
          /\ heap.notebooks[n].cells # heap.notebooks[request.notebook].cells
          /\ CellObjects(heap, n) \cap CellObjects(heap, request.notebook) = {}

\* C9 witness: a call returned a notebook with an edited cell and a new
\* package manifest
C9_Witness ==
    /\ pc = "done"
    /\ CellValues(heap, ret.notebook)[4].source = "x = 1"
    /\ heap.notebooks[ret.notebook].requirements = Some("deap numpy")

\* C10: when the edit-request oracle call fails, modify does not raise and
\* returns an artifact whose 12 sources are the input's and exactly one
\* summary, which holds the error text.
C10_EditFailureReturnsSourceIdentical ==
    "edit" \in failed =>
        /\ pc # "raised"
        /\ pc \in {"apply", "nb_apply"} => modification_result.modifications = <<>>
        /\ pc = "done" =>
              /\ Len(CellValues(heap, ret.notebook)) = NumCells
              /\ \A i \in CellIndices :
                     CellValues(heap, ret.notebook)[i + 1].source = orig.cells[i + 1].source
              /\ Len(ret.changes) = 1
              /\ \E e \in OracleErrors : e \in Range(ret.changes[1])

\* C10 witness: a targeted call returned after its edit-request call failed
C10_Witness ==
    /\ pc = "done"
    /\ path = "targeted"
    /\ "edit" \in failed
    /\ Len(ret.changes) = 1

(***************************************************************************)
(* Properties of two interleaved calls.                                    *)
(***************************************************************************)
\* what a finished call returned: the notebook by value, the summaries and
\* the changed indices
Returned(call) ==
    [cells |-> CellValues(call.heap, call.ret.notebook),
     requirements |-> call.heap.notebooks[call.ret.notebook].requirements,
     changes |-> call.ret.changes,
     cells_modified |-> call.ret.cells_modified]

\* what a call with the given target returns when it runs alone from the
\* empty memory, with the same oracle: every context it reads is empty
AloneReturn(cell_name) ==
    LET targeted == Truthy(cell_name) /\ ~IsNone(GetCellIndex(Val(cell_name)))
        analysed == OracleAnalysis(Val(GetCellIndex(Val(cell_name))), NoContext)
        result == OracleEdit(NoContext)
        applied == ApplyCellModifications(ArtifactHeap("generated"), 1,
                                          result.modifications)
        h == SetRequirements(applied.heap, applied.notebook, result.requirements)
    IN  [cells |-> CellValues(h, applied.notebook),
         requirements |-> h.notebooks[applied.notebook].requirements,
         changes |-> result.changes_summary,
         cells_modified |->
             IF targeted
             THEN Sorted({analysed.target_cell_index} \cup Range(analysed.affected_cells))
             ELSE [k \in 1 .. Len(result.modifications) |->
                      result.modifications[k].cell_index]]

\* the two calls
BothCalls == {Running, other}

\* each finished call returned what it returns alone
ReturnsAsAlone ==
    \A call \in BothCalls :
        call.pc = "done" => Returned(call) = AloneReturn(call.request.cell_name)

\* user identities that hold no ':', the separator of the in-process scope key
PlainUsers == {"u1", "u2"}

Parsed == ~IsNone(data)

\* a field the raw request does not supply
Absent(field) == IsNone(raw_request[field])

\* what the clamp of the spec gives for a parsed probability x: 0 below 0,
\* 1 above 1, x itself in between (nan compares with nothing and is taken
\* to 1 by min(1.0, nan))
Clamped(x) ==
    IF x.kind = "-inf" THEN Num(0)
    ELSE IF x.kind \in {"inf", "nan"} THEN Num(100)
    ELSE IF x.v < 0 THEN Num(0)
    ELSE IF x.v > 100 THEN Num(100)
    ELSE x

\* a probability of the closed interval [0, 1]
IsProbability(x) == x.kind = "num" /\ 0 <= x.v /\ x.v <= 100

\* the normalized probability is right for the text supplied in `field`
ProbabilityNormalized(field, result) ==
    /\ IsProbability(result)
    /\ (TruthyText(raw_request[field]) /\ ~IsNone(PyFloat(Val(raw_request[field])))) =>
           result = Clamped(Val(PyFloat(Val(raw_request[field]))))

\* C12: normalize puts the documented default in the place of every absent
\* numeric field (solution size 10, crossover probability 0.7, mutation
\* probability 0.2, population size 100, generations 50, termination mode
\* max-generations), and every supplied probability is normalized into
\* [0, 1]: below 0 to 0, above 1 to 1.
C12_DefaultsAndClampedProbabilities ==
    Parsed =>
        /\ ~Val(data).raised
        /\ Absent("solutionSize") => Val(data).solution_size = 10
        /\ Absent("crossoverProbability") => Val(data).crossover_probability = Num(70)
        /\ Absent("mutationProbability") => Val(data).mutation_probability = Num(20)
        /\ Absent("populationSize") => Val(data).population_size = 100
        /\ Absent("numGenerations") => Val(data).num_generations = 50
        /\ Absent("terminationCondition") =>
               Val(data).termination_condition = "maxGenerations"
        /\ ProbabilityNormalized("crossoverProbability", Val(data).crossover_probability)
        /\ ProbabilityNormalized("mutationProbability", Val(data).mutation_probability)

\* C12 witness: a request with crossover probability "1.7", mutation
\* probability "2" and no population size was normalized to 1, 1 and 100
C12_Witness ==
    /\ Parsed
    /\ raw_request.crossoverProbability = Some(<<"1", ".", "7">>)
    /\ raw_request.mutationProbability = Some(<<"2">>)
    /\ Absent("populationSize")
    /\ Val(data).crossover_probability = Num(100)
    /\ Val(data).mutation_probability = Num(100)
    /\ Val(data).population_size = 100

\* a numeric field holds a text that is no integer
NoInteger(field) ==
    TruthyText(raw_request[field]) /\ IsNone(PyInt(Val(raw_request[field])))

\* a numeric field holds a text that is no float
NoFloat(field) ==
    TruthyText(raw_request[field]) /\ IsNone(PyFloat(Val(raw_request[field])))

\* C13: a numeric field (solution size, population size, generations,
\* crossover and mutation probability) whose text cannot be parsed as the
\* expected number makes normalize neither raise nor fail: the normalized
\* field is the field's default.
C13_UnparseableNumbersGetDefaults ==
    Parsed =>
        /\ ~Val(data).raised
        /\ NoInteger("solutionSize") => Val(data).solution_size = 10
        /\ NoInteger("populationSize") => Val(data).population_size = 100
        /\ NoInteger("numGenerations") => Val(data).num_generations = 50
        /\ NoFloat("crossoverProbability") => Val(data).crossover_probability = Num(70)
        /\ NoFloat("mutationProbability") => Val(data).mutation_probability = Num(20)

\* C13 witness: solution size "3.5", population size "2e2", generations "8O"
\* and crossover probability "abc" were normalized to the defaults
C13_Witness ==
    /\ Parsed
    /\ raw_request.solutionSize = Some(<<"3", ".", "5">>)
    /\ raw_request.populationSize = Some(<<"2", "e", "2">>)
    /\ raw_request.numGenerations = Some(<<"8", "O">>)
    /\ raw_request.crossoverProbability = Some(<<"a", "b", "c">>)
    /\ ~Val(data).raised
    /\ Val(data).solution_size = 10
    /\ Val(data).population_size = 100

\* the list a domain-of-variables text writes, if it writes one
DomainList ==
    LET text == raw_request.domainOfVariables
    IN  IF /\ TruthyText(text)
           /\ Len(Val(text)) >= 2
           /\ Head(Val(text)) = "["
           /\ Val(text)[Len(Val(text))] = "]"
        THEN JsonLoads(Val(text))
        ELSE None

\* n times the value x
Broadcast(x, n) == [k \in 1 .. n |-> x]

\* C14: a two-element list [low, high] gives lower bounds all low and upper
\* bounds all high, each of length solution size; an even-length list of
\* more than two elements is read as interleaved pairs (positions 0, 2, 4,
\* ... lower, positions 1, 3, 5, ... upper); every other input gives lower
\* bounds all 0 and upper bounds all 1.  (Stated for solution sizes >= 0
\* and for texts other than the empty list.)
C14_DomainOfVariables ==
    (/\ Parsed
     /\ ~Val(data).raised
     /\ Val(data).solution_size >= 0
     /\ DomainList # Some(<<>>)) =>
        LET n == Val(data).solution_size
            lower == Val(data).lower_bounds
            upper == Val(data).upper_bounds
            values == Val(DomainList)
        IN  IF ~IsNone(DomainList) /\ Len(values) = 2
            THEN lower = Broadcast(values[1], n) /\ upper = Broadcast(values[2], n)
            ELSE IF ~IsNone(DomainList) /\ Len(values) > 2 /\ Len(values) % 2 = 0
            THEN /\ lower = [k \in 1 .. Len(values) \div 2 |-> values[2 * k - 1]]
                 /\ upper = [k \in 1 .. Len(values) \div 2 |-> values[2 * k]]
            ELSE lower = Broadcast(0, n) /\ upper = Broadcast(1, n)

\* the catch-all bag, empty when normalize adds none
Bag ==
    IF IsNone(Val(data).other_specifications) THEN [f \in {} |-> ""]
    ELSE Val(Val(data).other_specifications)

\* the fields that identify the request
IdentityFields == {"user_id", "notebook_id"}

\* C15: every field of the raw request that is not recognized is in the
\* catch-all bag with its value, and no recognized field, nor the user
\* identity, nor the artifact identity is in the bag.
C15_BagHoldsExactlyTheUnknownFields ==
    (Parsed /\ ~Val(data).raised) =>
        /\ \A f \in DOMAIN raw_request :
               (f \notin KNOWN_FIELDS \cup IdentityFields /\ ~IsNone(raw_request[f])) =>
                   f \in DOMAIN Bag /\ Bag[f] = Val(raw_request[f])
        /\ \A f \in DOMAIN Bag : f \notin KNOWN_FIELDS \cup IdentityFields

(***************************************************************************)
(* Properties of the catalog.                                              *)
(***************************************************************************)
\* a lookup of the given operation at position k
IsLookup(k, op) == k \in 1 .. Len(lookups) /\ lookups[k].op = op

\* C16: the catalog's mapping is a bijection on 0..11: indexOf(nameOf(i)) = i
\* for every i in 0..11 and nameOf(indexOf(r)) = r for every catalog role r;
\* indexOf of a name outside the catalog is -1 and nameOf of an index outside
\* 0..11 is the positional placeholder; and a name that the modifier's
\* target resolution shares with the catalog resolves to the same index in
\* both (as does an index in the generator's fallback names).
C16_CatalogBijection ==
    \A k \in 1 .. Len(lookups) :
        /\ (IsLookup(k, "get_cell_name") /\ Val(lookups[k].index) \in 0 .. 11) =>
               /\ lookups[k].name # "cell_" \o ToString(Val(lookups[k].index))
               /\ IsLookup(k + 1, "get_index_by_name") =>
                      lookups[k + 1].index = lookups[k].index
               /\ IsLookup(k + 1, "fallback_cell_name") =>
                      lookups[k + 1].name = lookups[k].name
        /\ (IsLookup(k, "get_cell_name") /\ Val(lookups[k].index) \notin 0 .. 11) =>
               lookups[k].name = "cell_" \o ToString(Val(lookups[k].index))
        /\ IsLookup(k, "get_index_by_name") =>
               /\ Val(lookups[k].index) \in {-1} \cup 0 .. 11
               /\ (Val(lookups[k].index) = -1) <=>
                      (\A i \in 0 .. 11 : get_cell_name(i) # lookups[k].name)
               /\ (Val(lookups[k].index) # -1 /\ IsLookup(k + 1, "get_cell_name")) =>
                      lookups[k + 1].name = lookups[k].name
        /\ (/\ IsLookup(k, "_get_cell_index")
            /\ IsLookup(k + 1, "get_index_by_name")
            /\ Val(lookups[k + 1].index) # -1) =>
               (~IsNone(lookups[k].index) => lookups[k].index = lookups[k + 1].index)

\* C16 witness: "mutation" was resolved by the modifier to 5 and then looked
\* up in the catalog, which gave 5 too
C16_Witness ==
    /\ Len(lookups) = 2
    /\ lookups[1] = [op |-> "_get_cell_index", index |-> Some(5), name |-> "mutation"]
    /\ lookups[2] = [op |-> "get_index_by_name", index |-> Some(5), name |-> "mutation"]

(***************************************************************************)
(* Properties of the edit set, the context reads, the notebook-level       *)
(* writes and the package manifest.                                        *)
(***************************************************************************)
\* a sequence of integers that is strictly ascending, so without duplicates
StrictlyAscending(seq) == \A k \in 1 .. Len(seq) - 1 : seq[k] < seq[k + 1]

\* a set of indices of the catalog, 0 to 11
WithinCatalog(S) == S \subseteq 0 .. 11

\* C17: in a targeted modification whose analysis oracle call succeeded with a
\* target index and additional indices within 0..11, the changed-indices list
\* is strictly ascending without duplicates, contains the index that the
\* request's target name resolved to, and equals
\* {resolved target index} \cup additional indices.
C17_EditSetOfResolvedTarget ==
    (path = "targeted" /\ "analysis" \notin failed) =>
        /\ (/\ pc = "edit"
            /\ WithinCatalog({analysis.target_cell_index} \cup Range(analysis.affected_cells))) =>
               /\ StrictlyAscending(all_cell_indices)
               /\ Range(all_cell_indices) =
                      {Val(target_index)} \cup Range(analysis.affected_cells)
        /\ (pc = "done" /\ WithinCatalog(Range(ret.cells_modified))) =>
               /\ StrictlyAscending(ret.cells_modified)
               /\ Val(target_index) \in Range(ret.cells_modified)

\* C18: in a targeted modification, if any of the four memory reads of the
\* context assembly failed, the memory context passed to both oracle calls is
\* empty (all of its lists empty), and no exception reaches the caller.
C18_FailedReadEmptiesContext ==
    (path = "targeted" /\ failed \cap MemoryReads # {}) =>
        /\ pc # "raised"
        /\ pc \in {"analyze", "build", "edit"} => mem0_context = NoContext

\* the number of records the memory layer holds
RECURSIVE SumOfLengths(_, _)
SumOfLengths(dict, keys) ==
    IF keys = {} THEN 0
    ELSE LET key == CHOOSE k \in keys : TRUE
         IN  Len(dict[key]) + SumOfLengths(dict, keys \ {key})

RecordCount == Len(mem.provider) + SumOfLengths(mem.fallback, DOMAIN mem.fallback)

\* the one memory write of a notebook-level modification
NotebookLevelWrite ==
    [op |-> "add_notebook_context", user_id |-> request.user_id,
     notebook_id |-> request.notebook_id, cell_name |-> None,
     affected_cells |-> <<>>, operation |-> Some("notebook_modify")]

\* every record held is an operation-context fact scoped to the request's
\* user and notebook
OnlyScopedOperationContext ==
    /\ \A k \in 1 .. Len(mem.provider) :
           /\ mem.provider[k].user_id = request.user_id
           /\ mem.provider[k].run_id = Some(request.notebook_id)
           /\ mem.provider[k].metadata.type = "notebook_context"
           /\ mem.provider[k].metadata.operation = Some("notebook_modify")
    /\ \A key \in DOMAIN mem.fallback :
           /\ key = ScopeKey(request.user_id, request.notebook_id)
           /\ \A k \in 1 .. Len(mem.fallback[key]) :
                  mem.fallback[key][k].type = "notebook_context"

\* C19 (as stated): every notebook-level modification (also one reached from
\* an unresolved target name) appends exactly one memory record, an
\* operation-context fact scoped to the request's user and notebook, and no
\* cell-modification or dependency-pattern fact, however many cells the
\* oracle edited.
C19_NotebookLevelAppendsOneRecord ==
    (pc = "done" /\ path = "notebook") =>
        /\ RecordCount = 1
        /\ OnlyScopedOperationContext

\* C19 (amended): every notebook-level modification issues exactly one memory
\* write, of an operation-context fact scoped to the request's user and
\* notebook, and issues none before it returns; the write appends exactly
\* one record, or none when the provider call of the write raises (the
\* in-process store always appends); no cell-modification or
\* dependency-pattern fact is written, however many cells the oracle edited.
C19_NotebookLevelWritesOnce ==
    path = "notebook" =>
        /\ pc # "done" => (writes = <<>> /\ RecordCount = 0)
        /\ pc = "done" =>
               /\ writes = <<NotebookLevelWrite>>
               /\ RecordCount = (IF provider THEN Len(mem.provider) ELSE 1)
               /\ RecordCount <= 1
               /\ OnlyScopedOperationContext

\* C19 witness: a notebook-level call reached from an unresolved name returned
\* with two cells edited and one record appended by the provider
C19_Witness ==
    /\ pc = "done"
    /\ path = "notebook"
    /\ request.cell_name = Some("not_a_real_cell")
    /\ Len(ret.cells_modified) = 2
    /\ provider
    /\ RecordCount = 1

\* C20: the notebook a modify call returns carries the requirements the
\* edit-request oracle call returned when it returned some, and the
\* requirements of the request's notebook when it returned none (also when
\* the oracle call failed or returned no edits).  Stated of the notebook the
\* call is about to return, while the oracle's result is still at hand.
C20_RequirementsReplacedOrKept ==
    pc \in {"store", "nb_store"} =>
        heap.notebooks[modified_notebook].requirements =
            IF Truthy(modification_result.requirements)
            THEN modification_result.requirements
            ELSE orig.requirements

(***************************************************************************)
(* Properties of the order of the collaborator calls.                      *)
(***************************************************************************)
\* the collaborator calls of a targeted modification, in order; cascading:
\* the edit set has more than one member
TargetedLevelCalls(cascading) ==
    <<"search_user_context", "get_cell_patterns", "get_learned_dependencies",
      "get_notebook_history", "oracle_analysis", "oracle_edit",
      "store_cell_modification">>
    \o (IF cascading THEN <<"store_dependency_pattern">> ELSE <<>>)
    \o <<"add_notebook_context">>

\* s is an initial part of t
IsPrefix(s, t) == Len(s) <= Len(t) /\ \A k \in 1 .. Len(s) : s[k] = t[k]

\* the oracle calls made so far
OracleCalls ==
    LET IsOracle(c) == c \in {"oracle_analysis", "oracle_edit"}
    IN  SelectSeq(calls, IsOracle)

\* the modify call has ended, by a return or by an exception
Ended == pc \in {"done", "raised"}

\* C21: in every targeted modification the events occur in this order,
\* without repetition: all memory reads, at most one affected-cells oracle
\* call, exactly one edit-request oracle call, the application of the edits,
\* all memory writes; the edit-request call is never issued before the
\* affected-cells call has ended, and no memory write happens before the
\* edits are applied.  A notebook-level modification makes exactly one
\* oracle call.
C21_StrictSequence ==
    /\ path = "targeted" =>
           /\ \E cascading \in BOOLEAN : IsPrefix(calls, TargetedLevelCalls(cascading))
           /\ pc = "apply" => (Len(calls) = 6 /\ writes = <<>>)
           /\ writes # <<>> => modified_notebook # 0
           /\ Ended => (OracleCalls = <<"oracle_analysis", "oracle_edit">>)
    /\ (path = "notebook" /\ Ended) => OracleCalls = <<"oracle_edit">>

(***************************************************************************)
(* Properties of the static dependency table.                              *)
(***************************************************************************)
\* the declared table: registration depends on evaluate, crossover,
\* mutation, selection and individual-init; main-loop on registration and
\* config; results on main-loop (roles by their index in the catalog)
DeclaredDependencies == (9 :> {3, 4, 5, 6, 8}) @@ (10 :> {9, 1}) @@ (11 :> {10})

\* the declared dependencies of a name
DeclaredOf(name) ==
    IF get_index_by_name(name) \in DOMAIN DeclaredDependencies
    THEN {get_cell_name(i) : i \in DeclaredDependencies[get_index_by_name(name)]}
    ELSE {}

\* C25: the static dependency table equals the declared one and the two
\* lookups are inverse relations: b is among the dependencies of a if and
\* only if a is among the dependents of b; both give the empty list for a
\* role without edges and for an unknown role.
C25_DependencyLookupsInverse ==
    \A k \in 1 .. Len(lookups) :
        /\ IsLookup(k, "get_dependent_cells") =>
               /\ Range(lookups[k].cells) = DeclaredOf(lookups[k].name)
               /\ Len(lookups[k].cells) = Cardinality(DeclaredOf(lookups[k].name))
               /\ \A j \in 1 .. Len(lookups) :
                      IsLookup(j, "get_cells_dependent_on") =>
                          (lookups[j].name \in Range(lookups[k].cells)
                               <=> lookups[k].name \in Range(lookups[j].cells))
        /\ IsLookup(k, "get_cells_dependent_on") =>
               /\ Range(lookups[k].cells) =
                      {n \in CatalogNames : lookups[k].name \in DeclaredOf(n)}
               /\ lookups[k].name \notin CatalogNames => lookups[k].cells = <<>>

\* C25 witness: the dependencies of the evolution loop were looked up, and
\* then the dependents of the configuration cell, which the first list holds
C25_Witness ==
    /\ Len(lookups) = 2
    /\ lookups[1] = [op |-> "get_dependent_cells", index |-> None,
                     name |-> "evolution_loop",
                     cells |-> <<"toolbox_registration", "config">>]
    /\ lookups[2] = [op |-> "get_cells_dependent_on", index |-> None,
                     name |-> "config", cells |-> <<"evolution_loop">>]

(***************************************************************************)
(* Properties of the changed indices.                                      *)
(***************************************************************************)
\* C26: every index in the changed-indices list a modify call returns,
\* targeted or notebook-level, lies in 0..11 and is the index of a cell of
\* the returned notebook, whatever indices the oracle's edit result holds.
C26_ChangedIndicesWithinNotebook ==
    pc = "done" =>
        \A k \in 1 .. Len(ret.cells_modified) :
            /\ ret.cells_modified[k] \in 0 .. 11
            /\ ret.cells_modified[k] + 1 \in 1 .. Len(CellValues(heap, ret.notebook))

(***************************************************************************)
(* Properties of the normalized bounds.                                    *)
(***************************************************************************)
\* C29: for every raw request the normalized lower-bounds and upper-bounds
\* lists have the same length, and that length is the normalized solution
\* size, whatever the solution size and the domain of variables are.
C29_BoundsHaveSolutionSize ==
    (Parsed /\ ~Val(data).raised) =>
        /\ Len(Val(data).lower_bounds) = Len(Val(data).upper_bounds)
        /\ Len(Val(data).lower_bounds) = Val(data).solution_size

(***************************************************************************)
(* Properties of the memory layer under a sequence of operations.          *)
(***************************************************************************)
\* a step keeps every record of every scope, with its tag and text, in its
\* place
KeepsRecords ==
    /\ IsPrefix(mem.provider, mem'.provider)
    /\ \A key \in DOMAIN mem.fallback :
           /\ key \in DOMAIN mem'.fallback
           /\ IsPrefix(mem.fallback[key], mem'.fallback[key])

\* C22: the memory store is append-only under every sequence of generate
\* and modify operations: each operation only adds records, and every
\* record present in a scope before it is present after it with the same
\* tag and text and in the same relative order; nothing updates or deletes
\* a record.
C22_AppendOnly == [][KeepsRecords]_<<vars, outside>>

\* C22 witness: after a generate and a targeted modify of user u1 on notebook
\* nb1 the in-process scope of the notebook holds the records of both
C22_Witness ==
    /\ ~provider
    /\ OperationsDone = 2
    /\ "u1:nb1" \in DOMAIN mem.fallback
    /\ Len(mem.fallback["u1:nb1"]) = 4
    /\ mem.fallback["u1:nb1"][1].type = "notebook_context"
    /\ mem.fallback["u1:nb1"][3].type = "dependency_pattern"

\* the records (tag and text) appended under a user, with or without a
\* notebook scope
AppendedUnder(user_id) ==
    {[type |-> w.type, content |-> w.content] :
         w \in {writes[k] : k \in {j \in 1 .. Len(writes) : writes[j].user_id = user_id}}}

\* the limit the readers of the layer pass at most
ReadLimit == 10

\* what the reads scoped to a user return: preference search, notebook
\* history, past modifications of a cell, error patterns
ReadsScopedTo(user_id) ==
    search_user_context(mem, provider, user_id, ReadLimit)
    \cup UNION {get_notebook_history(mem, provider, user_id, scope[2], ReadLimit) :
                    scope \in MemoryScopes}
    \cup UNION {get_cell_patterns(mem, provider, user_id, cell_name, ReadLimit) :
                    cell_name \in StoredCellNames}
    \cup get_common_errors(mem, provider, user_id, ReadLimit)

\* C27: in the in-process store the reads are isolated by user, also for
\* identifiers that hold ':': a record appended under user U, with or
\* without a notebook scope, is returned by no read scoped to another user.
C27_ReadsIsolatedByUser ==
    ~provider =>
        \A user_id \in MemoryUsers :
            \A result \in ReadsScopedTo(user_id) :
                \A k \in 1 .. Len(result) :
                    [type |-> result[k].type, content |-> result[k].content]
                        \in AppendedUnder(user_id)

\* the dependency patterns persisted so far, as they were issued
PersistedPatterns ==
    {w \in Range(writes) : w.type = "dependency_pattern" /\ w.persisted}

\* C24: once a targeted modification of user U has persisted a dependency
\* pattern with source R, the learned dependencies in the memory context of
\* every later targeted modification of U on R hold every affected name of
\* the pattern, however many other facts U has stored and whichever store
\* backs the layer.
C24_LearnedDependenciesAggregated ==
    \A w \in PersistedPatterns :
        \A deps \in get_learned_dependencies(mem, provider, w.user_id, Val(w.cell_name)) :
            Range(w.affected_cells) \subseteq deps

\* the accepted target names that resolve to the index of cell_name
SameCellNames(cell_name) ==
    {name \in StoredCellNames : GetCellIndex(name) = GetCellIndex(cell_name)}

\* the past-modification facts persisted so far, as they were issued
PersistedModifications ==
    {w \in Range(writes) : w.type = "cell_modification" /\ w.persisted}

\* C28: learned facts are keyed by role, not by the spelling of the target
\* name: a dependency pattern or past-modification fact persisted by a
\* targeted modification requested under one name can be returned in the
\* memory context of a later targeted modification of the same user
\* requested under another name of the same cell.  (Stated for the provider
\* client, and of the best answer its search can give.)
C28_FactsKeyedByRole ==
    provider =>
        /\ \A w \in PersistedPatterns :
               \A name \in SameCellNames(Val(w.cell_name)) :
                   \E deps \in get_learned_dependencies(mem, provider, w.user_id, name) :
                       Range(w.affected_cells) \subseteq deps
        /\ \A w \in PersistedModifications :
               \A name \in SameCellNames(Val(w.cell_name)) :
                   \E patterns \in get_cell_patterns(mem, provider, w.user_id, name, 3) :
                       w.content \in Range(MemoryTexts(patterns))

(***************************************************************************)
(* Properties of concurrent appends to the in-process store.               *)
(***************************************************************************)
\* the records of a scope key, as a reader finds them
RecordsOfKey(key) ==
    IF key \in DOMAIN fallback_memory.dict
    THEN fallback_memory.lists[fallback_memory.dict[key]]
    ELSE <<>>

\* how often record r occurs in seq
Occurrences(seq, r) == Cardinality({k \in 1 .. Len(seq) : seq[k] = r})

\* C23: under every interleaving of concurrent appends to the in-process
\* store, to the same key or to different keys, also when the key does not
\* exist yet, no append is lost: once all appends are complete each scope
\* holds every record appended to it exactly once.
C23_NoAppendLost ==
    (\A i \in CallerIds : callers # NoCallers /\ callers[i].pc = "done") =>
        /\ \A i \in CallerIds :
               Occurrences(RecordsOfKey(callers[i].key), RecordOf(i)) = 1
        /\ \A key \in AppendKeys :
               Len(RecordsOfKey(key)) =
                   Cardinality({i \in CallerIds : callers[i].key = key})
                   + (IF key = "u1:nb1" THEN Occurrences(RecordsOfKey(key), EarlierRecord)
                      ELSE 0)

(***************************************************************************)
(* Properties of the workflow and the route around a modify call.          *)
(***************************************************************************)
\* the state holds the engine's result
HoldsResult(state) ==
    /\ state.notebook = Some(ret.notebook)
    /\ state.validation_passed
    /\ IsNone(state.error)
    /\ state.changes_made = ret.changes
    /\ state.cells_modified = ret.cells_modified

\* the state holds an error and no notebook
HoldsError(state) ==
    /\ IsNone(state.notebook)
    /\ ~state.validation_passed
    /\ ~IsNone(state.error)

\* C30: after the workflow executed a modify operation its state either holds
\* the notebook, validation_passed true, no error and the changes and changed
\* indices the engine returned, or holds no notebook, validation_passed false
\* and an error, never both; the workflow returns a state also when the engine
\* raised; the route answers 500 exactly for the second kind of state and
\* otherwise returns the notebook with those changes and indices.
C30_WorkflowOutcomes ==
    /\ final_state # NoFinalState =>
          /\ HoldsResult(Val(final_state)) # HoldsError(Val(final_state))
          /\ HoldsResult(Val(final_state)) <=> pc = "done"
    /\ response # NoResponse =>
          /\ final_state # NoFinalState
          /\ Val(response).status = 500 <=> HoldsError(Val(final_state))
          /\ Val(response).status # 500 =>
                /\ Val(response).status = 200
                /\ Val(response).notebook = Some(ret.notebook)
                /\ Val(response).changes_made = ret.changes
                /\ Val(response).cells_modified = ret.cells_modified

\* a modify call that raised was answered with the internal error
C30_Witness ==
    /\ pc = "raised"
    /\ response # NoResponse
    /\ Val(response).status = 500
    /\ Val(final_state).error = Some(IndexErrorText)
    /\ "oracle_analysis" \in Range(calls)

====
